---- MODULE Spec2Model ----
(***************************************************************************)
(* ghreporting: the fetch-and-aggregate pipeline of internal/reporter      *)
(* (GenerateReport, processRepositoryWorker, processRepository,            *)
(* selectBranchesToProcess, generateSummary, getAuthorKey).                *)
(*                                                                         *)
(* Strings that the code splits (repository full names) are sequences of   *)
(* one-character strings, so that strings.Split is computed, not assumed.  *)
(* The worker goroutines are anonymous in the code; the pool is the bag of *)
(* their local states.                                                     *)
(***************************************************************************)
EXTENDS Integers, Sequences, FiniteSets, Bags, TLC

\* ------------------------------------------------------------------ bounds

\* Longest repository list drawn from RepoUniverse.
MaxRepos == 2

\* Longest repository list made of copies of one repository (pool sizing).
MaxPool == 11

\* const maxWorkers = 10
maxWorkers == 10

\* ------------------------------------------------------------------ helpers

Min(a, b) == IF a < b THEN a ELSE b

Range(s) == {s[i] : i \in 1..Len(s)}

\* All sequences over S of length at most n.
SeqsUpTo(S, n) == UNION {[1..k -> S] : k \in 0..n}

\* The order-preserving subsequences of s.
RECURSIVE SubSeqs(_)
SubSeqs(s) ==
    IF s = <<>> THEN {<<>>}
    ELSE LET rest == SubSeqs(Tail(s))
         IN  rest \cup {<<Head(s)>> \o r : r \in rest}

\* The bag of the elements of a sequence.
RECURSIVE SeqToBag(_)
SeqToBag(s) ==
    IF s = <<>> THEN EmptyBag ELSE SetToBag({Head(s)}) (+) SeqToBag(Tail(s))

\* ------------------------------------------------------------- data model

\* models.Author
Author(name, email, login) == [Name |-> name, Email |-> email, Login |-> login]

\* models.CommitStats
CommitStats(a, d, t) == [Additions |-> a, Deletions |-> d, Total |-> t]

\* models.Commit (Message and Date are carried through unread by the pipeline)
Commit(sha, author, stats) == [SHA |-> sha, Author |-> author, Stats |-> stats]

\* models.Branch
Branch(name, sha, commits) == [Name |-> name, SHA |-> sha, Commits |-> commits]

\* models.Repository
Repository(name, fullName, url, defaultBranch, branches) ==
    [Name |-> name, FullName |-> fullName, URL |-> url,
     DefaultBranch |-> defaultBranch, Branches |-> branches]

\* strings.Split(s, sep) for a one-character separator.
RECURSIVE Split(_, _)
Split(s, sep) ==
    IF \A i \in 1..Len(s) : s[i] # sep THEN <<s>>
    ELSE LET i == CHOOSE k \in 1..Len(s) :
                      s[k] = sep /\ \A j \in 1..(k - 1) : s[j] # sep
         IN  <<SubSeq(s, 1, i - 1)>> \o Split(SubSeq(s, i + 1, Len(s)), sep)

\* ------------------------------------------------- reporter: pure functions

\* getAuthorKey asking for the email before the login.
getAuthorKeyEmailFirst(author) ==
    IF author.Email # "" THEN author.Email
    ELSE IF author.Login # "" THEN author.Login
    ELSE author.Name

\* Reporter.getAuthorKey: login, else email, else name.
getAuthorKey(author) ==
    IF author.Login # "" THEN author.Login
    ELSE IF author.Email # "" THEN author.Email
    ELSE author.Name

\* Index of the first branch named `name` (the inner loops' break), 0 if none.
FirstNamed(branches, name) ==
    IF \E i \in 1..Len(branches) : branches[i].Name = name
    THEN CHOOSE i \in 1..Len(branches) :
             /\ branches[i].Name = name
             /\ \A j \in 1..(i - 1) : branches[j].Name # name
    ELSE 0

\* importantBranches, in the order of the literal, but with develop ahead of master.
importantBranchesSwapped ==
    <<"main", "develop", "master", "dev", "staging", "production">>

\* importantBranches := []string{...}
importantBranches ==
    <<"main", "master", "develop", "dev", "staging", "production">>

\* The first loop without branchMap[branch.Name] = true.
SelectDefaultUnmarked(branches, defaultBranch) ==
    LET i == FirstNamed(branches, defaultBranch)
    IN  IF i = 0
        THEN [selected |-> <<>>, branchMap |-> {}]
        ELSE [selected |-> <<branches[i]>>, branchMap |-> {}]

\* The first loop looking at the head of the list only.
SelectDefaultHeadOnly(branches, defaultBranch) ==
    IF branches # <<>> /\ branches[1].Name = defaultBranch
    THEN [selected |-> <<branches[1]>>, branchMap |-> {branches[1].Name}]
    ELSE [selected |-> <<>>, branchMap |-> {}]

\* First loop of selectBranchesToProcess: the default branch, if present.
SelectDefault(branches, defaultBranch) ==
    LET i == FirstNamed(branches, defaultBranch)
    IN  IF i = 0
        THEN [selected |-> <<>>, branchMap |-> {}]
        ELSE [selected |-> <<branches[i]>>, branchMap |-> {branches[i].Name}]

\* Second loop of selectBranchesToProcess, from the k-th important name on.
RECURSIVE SelectImportant(_, _, _)
SelectImportant(branches, st, k) ==
    IF k > Len(importantBranches) THEN st
    ELSE LET name == importantBranches[k]
             i    == FirstNamed(branches, name)
         IN  IF name \notin st.branchMap /\ i # 0
             THEN SelectImportant(branches,
                      [selected  |-> Append(st.selected, branches[i]),
                       branchMap |-> st.branchMap \cup {branches[i].Name}],
                      k + 1)
             ELSE SelectImportant(branches, st, k + 1)

\* The same selection, returned in the order of the input list.
selectBranchesInInputOrder(branches, defaultBranch) ==
    LET out == SelectImportant(branches, SelectDefault(branches, defaultBranch), 1)
    IN  SelectSeq(branches, LAMBDA b : b \in Range(out.selected))

\* Reporter.selectBranchesToProcess
selectBranchesToProcess(branches, defaultBranch) ==
    SelectImportant(branches, SelectDefault(branches, defaultBranch), 1).selected

\* A Go map as a function; the empty map.
EmptyMap == [x \in {} |-> 0]

MapPut(m, k, v) == [x \in DOMAIN m \cup {k} |-> IF x = k THEN v ELSE m[x]]

\* The zero value of models.RepositoryStats.
ZeroRepositoryStats == [Commits |-> 0, Additions |-> 0, Deletions |-> 0]

\* FoldCommit with the repository bucket's Additions fed from the Deletions.
FoldCommitTypo(summary, fullName, commit) ==
    LET authorKey == getAuthorKey(commit.Author)
        stats     == IF authorKey \in DOMAIN summary
                     THEN summary[authorKey]
                     ELSE [Name           |-> commit.Author.Name,
                           Email          |-> commit.Author.Email,
                           Login          |-> commit.Author.Login,
                           TotalCommits   |-> 0,
                           TotalAdditions |-> 0,
                           TotalDeletions |-> 0,
                           Repositories   |-> EmptyMap]
        repoStats == IF fullName \in DOMAIN stats.Repositories
                     THEN stats.Repositories[fullName]
                     ELSE ZeroRepositoryStats
        repoStats2 == [Commits   |-> repoStats.Commits + 1,
                       Additions |-> repoStats.Additions + commit.Stats.Deletions,
                       Deletions |-> repoStats.Deletions + commit.Stats.Deletions]
        stats2    == [stats EXCEPT
                        !.TotalCommits   = @ + 1,
                        !.TotalAdditions = @ + commit.Stats.Additions,
                        !.TotalDeletions = @ + commit.Stats.Deletions,
                        !.Repositories   = MapPut(@, fullName, repoStats2)]
    IN  MapPut(summary, authorKey, stats2)

\* FoldCommit without the `exists` test: every commit starts a fresh entry.
FoldCommitReset(summary, fullName, commit) ==
    LET authorKey == getAuthorKey(commit.Author)
        repoStats2 == [Commits   |-> 1,
                       Additions |-> commit.Stats.Additions,
                       Deletions |-> commit.Stats.Deletions]
        stats2    == [Name           |-> commit.Author.Name,
                      Email          |-> commit.Author.Email,
                      Login          |-> commit.Author.Login,
                      TotalCommits   |-> 1,
                      TotalAdditions |-> commit.Stats.Additions,
                      TotalDeletions |-> commit.Stats.Deletions,
                      Repositories   |-> MapPut(EmptyMap, fullName, repoStats2)]
    IN  MapPut(summary, authorKey, stats2)

\* The loop body taking Name, Email and Login from every commit.
FoldCommitLastSeen(summary, fullName, commit) ==
    LET authorKey == getAuthorKey(commit.Author)
        seed      == [Name           |-> commit.Author.Name,
                      Email          |-> commit.Author.Email,
                      Login          |-> commit.Author.Login,
                      TotalCommits   |-> 0,
                      TotalAdditions |-> 0,
                      TotalDeletions |-> 0,
                      Repositories   |-> EmptyMap]
        stats     == IF authorKey \in DOMAIN summary
                     THEN [seed EXCEPT
                             !.TotalCommits   = summary[authorKey].TotalCommits,
                             !.TotalAdditions = summary[authorKey].TotalAdditions,
                             !.TotalDeletions = summary[authorKey].TotalDeletions,
                             !.Repositories   = summary[authorKey].Repositories]
                     ELSE seed
        repoStats == IF fullName \in DOMAIN stats.Repositories
                     THEN stats.Repositories[fullName]
                     ELSE ZeroRepositoryStats
        repoStats2 == [Commits   |-> repoStats.Commits + 1,
                       Additions |-> repoStats.Additions + commit.Stats.Additions,
                       Deletions |-> repoStats.Deletions + commit.Stats.Deletions]
        stats2    == [stats EXCEPT
                        !.TotalCommits   = @ + 1,
                        !.TotalAdditions = @ + commit.Stats.Additions,
                        !.TotalDeletions = @ + commit.Stats.Deletions,
                        !.Repositories   = MapPut(@, fullName, repoStats2)]
    IN  MapPut(summary, authorKey, stats2)

\* The loop body with the login as the key of every commit.
FoldCommitByLogin(summary, fullName, commit) ==
    LET authorKey == commit.Author.Login
        stats     == IF authorKey \in DOMAIN summary
                     THEN summary[authorKey]
                     ELSE [Name           |-> commit.Author.Name,
                           Email          |-> commit.Author.Email,
                           Login          |-> commit.Author.Login,
                           TotalCommits   |-> 0,
                           TotalAdditions |-> 0,
                           TotalDeletions |-> 0,
                           Repositories   |-> EmptyMap]
        repoStats == IF fullName \in DOMAIN stats.Repositories
                     THEN stats.Repositories[fullName]
                     ELSE ZeroRepositoryStats
        repoStats2 == [Commits   |-> repoStats.Commits + 1,
                       Additions |-> repoStats.Additions + commit.Stats.Additions,
                       Deletions |-> repoStats.Deletions + commit.Stats.Deletions]
        stats2    == [stats EXCEPT
                        !.TotalCommits   = @ + 1,
                        !.TotalAdditions = @ + commit.Stats.Additions,
                        !.TotalDeletions = @ + commit.Stats.Deletions,
                        !.Repositories   = MapPut(@, fullName, repoStats2)]
    IN  MapPut(summary, authorKey, stats2)

\* The body of generateSummary's innermost loop, for one commit of the
\* repository named fullName.
FoldCommit(summary, fullName, commit) ==
    LET authorKey == getAuthorKey(commit.Author)
        stats     == IF authorKey \in DOMAIN summary
                     THEN summary[authorKey]
                     ELSE [Name           |-> commit.Author.Name,
                           Email          |-> commit.Author.Email,
                           Login          |-> commit.Author.Login,
                           TotalCommits   |-> 0,
                           TotalAdditions |-> 0,
                           TotalDeletions |-> 0,
                           Repositories   |-> EmptyMap]
        repoStats == IF fullName \in DOMAIN stats.Repositories
                     THEN stats.Repositories[fullName]
                     ELSE ZeroRepositoryStats
        repoStats2 == [Commits   |-> repoStats.Commits + 1,
                       Additions |-> repoStats.Additions + commit.Stats.Additions,
                       Deletions |-> repoStats.Deletions + commit.Stats.Deletions]
        stats2    == [stats EXCEPT
                        !.TotalCommits   = @ + 1,
                        !.TotalAdditions = @ + commit.Stats.Additions,
                        !.TotalDeletions = @ + commit.Stats.Deletions,
                        !.Repositories   = MapPut(@, fullName, repoStats2)]
    IN  MapPut(summary, authorKey, stats2)

\* The commits of one branch, each paired with the repository's full name.
BranchItems(fullName, commits) ==
    [i \in 1..Len(commits) |-> [repo |-> fullName, commit |-> commits[i]]]

\* The commits of one repository in the order the loops visit them.
RECURSIVE RepoItems(_, _)
RepoItems(fullName, branches) ==
    IF branches = <<>> THEN <<>>
    ELSE BranchItems(fullName, Head(branches).Commits)
             \o RepoItems(fullName, Tail(branches))

\* Every commit of every branch of every repository, in traversal order.
RECURSIVE CommitItems(_)
CommitItems(repos) ==
    IF repos = <<>> THEN <<>>
    ELSE RepoItems(Head(repos).FullName, Head(repos).Branches)
             \o CommitItems(Tail(repos))

RECURSIVE FoldItems(_, _)
FoldItems(summary, items) ==
    IF items = <<>> THEN summary
    ELSE FoldItems(FoldCommit(summary, Head(items).repo, Head(items).commit),
                   Tail(items))

\* Reporter.generateSummary
generateSummary(repos) == FoldItems(EmptyMap, CommitItems(repos))

\* ------------------------------------------- the remote provider (fixture)

OwnerO == <<"o">>

\* What the remote service holds: the branches of owner/repo.
ProviderBranches(owner, repo) ==
    IF owner = OwnerO /\ repo = <<"a">>
    THEN <<Branch("feature/x", "f1", <<>>), Branch("main", "m1", <<>>),
           Branch("develop", "d1", <<>>)>>
    ELSE IF owner = OwnerO /\ repo = <<"b">>
    THEN <<Branch("master", "m2", <<>>)>>
    ELSE <<>>

\* What the remote service holds: the commits of owner/repo@branch in the
\* window, with the statistics of the per-commit detail call.
ProviderCommits(owner, repo, branch) ==
    IF owner = OwnerO /\ repo = <<"a">> /\ branch = "main"
    THEN <<Commit("c1", Author("Alice", "alice@x", "alice"), CommitStats(10, 5, 15))>>
    ELSE IF owner = OwnerO /\ repo = <<"a">> /\ branch = "develop"
    THEN <<Commit("c2", Author("Bob", "bob@x", ""), CommitStats(1, 0, 1))>>
    ELSE IF owner = OwnerO /\ repo = <<"b">> /\ branch = "master"
    THEN <<Commit("c3", Author("Alice B.", "alice@y", "alice"), CommitStats(20, 3, 23))>>
    ELSE <<>>

\* Error values.
ErrMalformed == "invalid repository name format"
ErrProvider  == "provider failure"
ErrCancelled == "context canceled"

Ok(v)    == [ok |-> TRUE,  val |-> v,    err |-> ""]
Fail(e)  == [ok |-> FALSE, val |-> <<>>, err |-> e]

\* GitHubClient.ListBranches: the branch list, or an error.
ListBranchesOutcomes(ctxCancelled, owner, repo) ==
    IF ctxCancelled THEN {Fail(ErrCancelled)}
    ELSE {Fail(ErrProvider), Ok(ProviderBranches(owner, repo))}

\* GitHubClient.ListCommits: a failed page fails the call; a failed detail
\* call drops that commit from the list.
ListCommitsOutcomes(ctxCancelled, owner, repo, branch) ==
    IF ctxCancelled THEN {Fail(ErrCancelled)}
    ELSE {Fail(ErrProvider)}
             \cup {Ok(cs) : cs \in SubSeqs(ProviderCommits(owner, repo, branch))}

\* ------------------------------------------------------------ input lists

RepoA   == Repository(<<"a">>, <<"o", "/", "a">>, "url-a", "main", <<>>)
RepoB   == Repository(<<"b">>, <<"o", "/", "b">>, "url-b", "master", <<>>)
RepoBad == Repository(<<"x">>, <<"x">>, "url-x", "main", <<>>)

\* Full names with two separators, and with one separator and no owner.
RepoDeep    == Repository(<<"c">>, <<"o", "/", "a", "/", "c">>, "url-c", "main", <<>>)
RepoNoOwner == Repository(<<"a">>, <<"/", "a">>, "url-n", "main", <<>>)

RepoUniverse == {RepoA, RepoB, RepoBad}

\* The lists the initial repository listing may return.
InputLists ==
    SeqsUpTo(RepoUniverse, MaxRepos)
        \cup {[i \in 1..k |-> RepoBad] : k \in 0..MaxPool}
        \cup {<<RepoDeep>>, <<RepoNoOwner>>}

\* ------------------------------------------------------------------ state

VARIABLES
    mainPc,         \* GenerateReport: "list", "spawn", "goCloser", "collect",
                    \*   "summary", "returned", "error"
    cancelled,      \* ctx is cancelled
    repos,          \* repos, as listed
    spawned,        \* the spawn loop's i
    reposChan,      \* buffered channel contents
    reposClosed,
    resultsChan,
    resultsClosed,
    errorsChan,
    errorsClosed,
    wg,             \* the WaitGroup counter
    workers,        \* bag of the workers' local states
    dispatcher,     \* [pc, i]: the sending goroutine
    closerPc,       \* the goroutine that waits and closes
    resultsNil,     \* the collector set its resultsChan to nil
    errorsNil,
    processedRepos,
    errors,
    warnings,       \* branch warnings logged by processRepository
    panicked,       \* a send on, or close of, a closed channel happened
    report          \* what GenerateReport returned

coordVars ==
    <<mainPc, cancelled, repos, spawned, reposChan, reposClosed, resultsChan,
      resultsClosed, errorsChan, errorsClosed, wg, workers, dispatcher,
      closerPc, resultsNil, errorsNil, processedRepos, errors, warnings,
      panicked, report>>

\* State of the stepwise run of generateSummary on a drawn input.
VARIABLES
    sumRepos,       \* the repositories handed to generateSummary
    sumPos,         \* number of commits folded so far
    summary         \* the summary map being built

sumVars == <<sumRepos, sumPos, summary>>

\* State of a call of selectBranchesToProcess on a drawn input.
VARIABLES
    selBranches,    \* the branch list
    selDefault,     \* the default branch name
    selDone,        \* the call has returned
    selected        \* what it returned

selVars == <<selBranches, selDefault, selDone, selected>>

\* State of a call of getAuthorKey on a drawn author.
VARIABLES
    keyCall         \* the author, and the key once the call has returned

keyVars == <<keyCall>>

\* State of single calls of the client and of a run of main.
VARIABLES
    commitsCall,    \* GitHubClient.ListCommits: position, lists, result
    convCall,       \* GitHubClient.convertRepositories: argument and result
    mainRun         \* main: arguments, clock, position, window, exit status

callVars == <<commitsCall, convCall, mainRun>>

vars == <<coordVars, sumVars, selVars, keyVars, callVars>>

SumIdle ==
    /\ sumRepos = <<>>
    /\ sumPos = 0
    /\ summary = EmptyMap

SelIdle ==
    /\ selBranches = <<>>
    /\ selDefault = ""
    /\ selDone = FALSE
    /\ selected = <<>>

NoKeyCall == [returned |-> FALSE, author |-> Author("", "", "")]

KeyIdle == keyCall = NoKeyCall

\* detailOk[i] records whether the detail call for allCommits[i] returned
\* without an error.
NoCommitsCall ==
    [pc |-> "off", listed |-> <<>>, allCommits |-> <<>>, pos |-> 0,
     detailOk |-> <<>>, result |-> <<>>, err |-> ""]

CommitsIdle == commitsCall = NoCommitsCall

NoConvCall == [returned |-> FALSE, repos |-> <<>>]

ConvIdle == convCall = NoConvCall

NoMainRun == [pc |-> "off"]

MainIdle == mainRun = NoMainRun

CallsIdle == CommitsIdle /\ ConvIdle /\ MainIdle

NoRepo == Repository(<<>>, <<>>, "", "", <<>>)

NoReport == [returned |-> FALSE]

\* A worker blocked at `for repo := range reposChan`.
IdleWorker ==
    [pc |-> "recv", repo |-> NoRepo, owner |-> <<>>, repoName |-> <<>>,
     todo |-> <<>>, done |-> <<>>, err |-> "", calls |-> <<>>]

ExitedWorker == [IdleWorker EXCEPT !.pc = "exited"]

Replace(bag, old, new) == (bag (-) SetToBag({old})) (+) SetToBag({new})

\* The channels sized to the worker pool instead of the input.
ChanCapPool == Min(maxWorkers, Len(repos))

\* cap(reposChan) = cap(resultsChan) = cap(errorsChan) = len(repos)
ChanCap == Len(repos)

Init ==
    /\ mainPc = "list"
    /\ cancelled = FALSE
    /\ repos = <<>>
    /\ spawned = 0
    /\ reposChan = <<>>
    /\ reposClosed = FALSE
    /\ resultsChan = <<>>
    /\ resultsClosed = FALSE
    /\ errorsChan = <<>>
    /\ errorsClosed = FALSE
    /\ wg = 0
    /\ workers = EmptyBag
    /\ dispatcher = [pc |-> "off", i |-> 0]
    /\ closerPc = "off"
    /\ resultsNil = FALSE
    /\ errorsNil = FALSE
    /\ processedRepos = <<>>
    /\ errors = <<>>
    /\ warnings = {}
    /\ panicked = FALSE
    /\ report = NoReport
    /\ SumIdle
    /\ SelIdle
    /\ KeyIdle
    /\ CallsIdle

\* ------------------------------------------------ GenerateReport: actions

coordOther == <<sumVars, selVars, keyVars, callVars>>

\* r.client.ListRepositories fails: GenerateReport returns the error.
ListRepositoriesFails ==
    /\ mainPc = "list"
    /\ mainPc' = "error"
    /\ report' = [returned |-> TRUE, err |-> "failed to list repositories"]
    /\ UNCHANGED <<cancelled, repos, spawned, reposChan, reposClosed,
                   resultsChan, resultsClosed, errorsChan, errorsClosed, wg,
                   workers, dispatcher, closerPc, resultsNil, errorsNil,
                   processedRepos, errors, warnings, panicked>>
    /\ UNCHANGED coordOther

\* r.client.ListRepositories succeeds; the three channels are made.
ListRepositoriesOk ==
    /\ mainPc = "list"
    /\ ~cancelled
    /\ \E rs \in InputLists : repos' = rs
    /\ mainPc' = "spawn"
    /\ UNCHANGED <<cancelled, spawned, reposChan, reposClosed, resultsChan,
                   resultsClosed, errorsChan, errorsClosed, wg, workers,
                   dispatcher, closerPc, resultsNil, errorsNil,
                   processedRepos, errors, warnings, panicked, report>>
    /\ UNCHANGED coordOther

\* The loop condition without the maxWorkers bound.
SpawnMoreUnbounded == spawned < Len(repos)

\* The loop condition of the worker pool: i < maxWorkers && i < len(repos).
SpawnMore == spawned < maxWorkers /\ spawned < Len(repos)

\* One iteration of the pool loop: wg.Add(1); go r.processRepositoryWorker(...)
SpawnWorker ==
    /\ mainPc = "spawn"
    /\ SpawnMore
    /\ wg' = wg + 1
    /\ workers' = workers (+) SetToBag({IdleWorker})
    /\ spawned' = spawned + 1
    /\ UNCHANGED <<mainPc, cancelled, repos, reposChan, reposClosed,
                   resultsChan, resultsClosed, errorsChan, errorsClosed,
                   dispatcher, closerPc, resultsNil, errorsNil,
                   processedRepos, errors, warnings, panicked, report>>
    /\ UNCHANGED coordOther

\* The pool loop ends; the sending goroutine is started.
StartDispatcher ==
    /\ mainPc = "spawn"
    /\ ~SpawnMore
    /\ dispatcher' = [pc |-> "send", i |-> 1]
    /\ mainPc' = "goCloser"
    /\ UNCHANGED <<cancelled, repos, spawned, reposChan, reposClosed,
                   resultsChan, resultsClosed, errorsChan, errorsClosed, wg,
                   workers, closerPc, resultsNil, errorsNil, processedRepos,
                   errors, warnings, panicked, report>>
    /\ UNCHANGED coordOther

\* The waiting-and-closing goroutine is started; the collector loop begins.
StartCloser ==
    /\ mainPc = "goCloser"
    /\ closerPc' = "wait"
    /\ mainPc' = "collect"
    /\ UNCHANGED <<cancelled, repos, spawned, reposChan, reposClosed,
                   resultsChan, resultsClosed, errorsChan, errorsClosed, wg,
                   workers, dispatcher, resultsNil, errorsNil, processedRepos,
                   errors, warnings, panicked, report>>
    /\ UNCHANGED coordOther

\* reposChan <- repo
DispatchSend ==
    /\ dispatcher.pc = "send"
    /\ dispatcher.i <= Len(repos)
    /\ Len(reposChan) < ChanCap
    /\ reposChan' = Append(reposChan, repos[dispatcher.i])
    /\ panicked' = (panicked \/ reposClosed)
    /\ dispatcher' = [dispatcher EXCEPT !.i = @ + 1]
    /\ UNCHANGED <<mainPc, cancelled, repos, spawned, reposClosed,
                   resultsChan, resultsClosed, errorsChan, errorsClosed, wg,
                   workers, closerPc, resultsNil, errorsNil, processedRepos,
                   errors, warnings, report>>
    /\ UNCHANGED coordOther

\* close(reposChan)
DispatchClose ==
    /\ dispatcher.pc = "send"
    /\ dispatcher.i > Len(repos)
    /\ reposClosed' = TRUE
    /\ panicked' = (panicked \/ reposClosed)
    /\ dispatcher' = [dispatcher EXCEPT !.pc = "done"]
    /\ UNCHANGED <<mainPc, cancelled, repos, spawned, reposChan, resultsChan,
                   resultsClosed, errorsChan, errorsClosed, wg, workers,
                   closerPc, resultsNil, errorsNil, processedRepos, errors,
                   warnings, report>>
    /\ UNCHANGED coordOther

\* ------------------------------- processRepositoryWorker, processRepository

\* processRepository failing a repository of which no branch was fetched.
SucceedingNonEmpty(repo, branches) ==
    IF branches = <<>>
    THEN [IdleWorker EXCEPT !.pc = "sendError", !.repo = repo,
                            !.err = "no branches"]
    ELSE [IdleWorker EXCEPT !.pc = "sendResult",
                            !.repo = [repo EXCEPT !.Branches = branches]]

\* processRepository returning the repository under its full name.
SucceedingRenamed(repo, branches) ==
    [IdleWorker EXCEPT !.pc = "sendResult",
                       !.repo = [repo EXCEPT !.Branches = branches,
                                             !.Name = repo.FullName]]

\* The worker holds the repository processRepository returned, about to send.
Succeeding(repo, branches) ==
    [IdleWorker EXCEPT !.pc = "sendResult",
                       !.repo = [repo EXCEPT !.Branches = branches]]

\* The worker moves on to the next repository without reporting the error.
FailingDropped(repo, e) == IdleWorker

\* The worker ignores err and sends the returned repository as a result.
FailingAsSuccess(repo, e) == Succeeding(repo, repo.Branches)

\* The worker holds (repo, err) of a failed processRepository, about to send.
Failing(repo, e) ==
    [IdleWorker EXCEPT !.pc = "sendError", !.repo = repo, !.err = e]

\* processRepository without the check of len(parts).
AfterSplitUnchecked(repo) ==
    LET parts == Split(repo.FullName, "/")
    IN  [IdleWorker EXCEPT !.pc = "branches", !.repo = repo,
                            !.owner = parts[1],
                            !.repoName = IF Len(parts) >= 2 THEN parts[2] ELSE <<>>]

\* processRepository up to its first provider call: the full name is split.
AfterSplit(repo) ==
    LET parts == Split(repo.FullName, "/")
    IN  IF Len(parts) # 2
        THEN Failing(repo, ErrMalformed)
        ELSE [IdleWorker EXCEPT !.pc = "branches", !.repo = repo,
                                !.owner = parts[1], !.repoName = parts[2]]

\* The provider calls of the current processRepository, with the call that
\* just returned `out` added.
Called(w, kind, branch, out) ==
    Append(w.calls, [kind |-> kind, owner |-> w.owner, repo |-> w.repoName,
                     branch |-> branch, ok |-> out.ok, val |-> out.val])

\* processRepository downgrading a ListBranches error to "no branches".
AfterBranchesSwallow(w, out) ==
    LET branchesToProcess ==
            IF out.ok THEN selectBranchesToProcess(out.val, w.repo.DefaultBranch)
            ELSE <<>>
        next ==
            IF branchesToProcess = <<>>
            THEN Succeeding(w.repo, <<>>)
            ELSE [w EXCEPT !.pc = "commits", !.todo = branchesToProcess]
    IN  [next EXCEPT !.calls = Called(w, "ListBranches", "", out)]

\* processRepository going on to the default branch's commits after a
\* ListBranches error.
AfterBranchesContinue(w, out) ==
    LET branchesToProcess ==
            IF out.ok THEN selectBranchesToProcess(out.val, w.repo.DefaultBranch)
            ELSE <<Branch(w.repo.DefaultBranch, "", <<>>)>>
        next ==
            IF branchesToProcess = <<>>
            THEN Succeeding(w.repo, <<>>)
            ELSE [w EXCEPT !.pc = "commits", !.todo = branchesToProcess]
    IN  [next EXCEPT !.calls = Called(w, "ListBranches", "", out)]

\* processRepository after ListBranches returned `out`.
AfterBranches(w, out) ==
    LET next ==
            IF ~out.ok THEN Failing(w.repo, out.err)
            ELSE LET branchesToProcess ==
                         selectBranchesToProcess(out.val, w.repo.DefaultBranch)
                 IN  IF branchesToProcess = <<>>
                     THEN Succeeding(w.repo, <<>>)
                     ELSE [w EXCEPT !.pc = "commits", !.todo = branchesToProcess]
    IN  [next EXCEPT !.calls = Called(w, "ListBranches", "", out)]

\* processRepository appending the branch, without commits, when ListCommits
\* failed.
AfterCommitsKeepFailed(w, out) ==
    LET branch == Head(w.todo)
        processedBranches == Append(w.done, [branch EXCEPT !.Commits = out.val])
        next ==
            IF Tail(w.todo) = <<>>
            THEN Succeeding(w.repo, processedBranches)
            ELSE [w EXCEPT !.todo = Tail(w.todo), !.done = processedBranches]
    IN  [next EXCEPT !.calls = Called(w, "ListCommits", branch.Name, out)]

\* processRepository asking once more for the commits of a branch whose
\* first ListCommits call failed.
AfterCommitsRetry(w, out) ==
    LET branch == Head(w.todo)
        first  == \A i \in 1..Len(w.calls) : w.calls[i].branch # branch.Name
        processedBranches ==
            IF out.ok
            THEN Append(w.done, [branch EXCEPT !.Commits = out.val])
            ELSE w.done
        next ==
            IF ~out.ok /\ first THEN w
            ELSE IF Tail(w.todo) = <<>>
            THEN Succeeding(w.repo, processedBranches)
            ELSE [w EXCEPT !.todo = Tail(w.todo), !.done = processedBranches]
    IN  [next EXCEPT !.calls = Called(w, "ListCommits", branch.Name, out)]

\* processRepository after ListCommits for the next branch returned `out`.
AfterCommits(w, out) ==
    LET branch == Head(w.todo)
        processedBranches ==
            IF out.ok
            THEN Append(w.done, [branch EXCEPT !.Commits = out.val])
            ELSE w.done
        next ==
            IF Tail(w.todo) = <<>>
            THEN Succeeding(w.repo, processedBranches)
            ELSE [w EXCEPT !.todo = Tail(w.todo), !.done = processedBranches]
    IN  [next EXCEPT !.calls = Called(w, "ListCommits", branch.Name, out)]

\* The error the worker puts on errorsChan: "repository %s: %w".
WrappedError(w) == [repo |-> w.repo.FullName, err |-> w.err]

\* `for repo := range reposChan` receives a repository.
WorkerReceive ==
    /\ reposChan # <<>>
    /\ \E w \in BagToSet(workers) :
        /\ w.pc = "recv"
        /\ workers' = Replace(workers, w, AfterSplit(Head(reposChan)))
    /\ reposChan' = Tail(reposChan)
    /\ UNCHANGED <<mainPc, cancelled, repos, spawned, reposClosed,
                   resultsChan, resultsClosed, errorsChan, errorsClosed, wg,
                   dispatcher, closerPc, resultsNil, errorsNil,
                   processedRepos, errors, warnings, panicked, report>>
    /\ UNCHANGED coordOther

\* The range loop ends on the closed, drained channel; defer wg.Done().
WorkerExit ==
    /\ reposChan = <<>>
    /\ reposClosed
    /\ \E w \in BagToSet(workers) :
        /\ w.pc = "recv"
        /\ workers' = Replace(workers, w, ExitedWorker)
    /\ wg' = wg - 1
    /\ UNCHANGED <<mainPc, cancelled, repos, spawned, reposChan, reposClosed,
                   resultsChan, resultsClosed, errorsChan, errorsClosed,
                   dispatcher, closerPc, resultsNil, errorsNil,
                   processedRepos, errors, warnings, panicked, report>>
    /\ UNCHANGED coordOther

\* r.client.ListBranches returns.
WorkerListBranches ==
    /\ \E w \in BagToSet(workers) :
        /\ w.pc = "branches"
        /\ \E out \in ListBranchesOutcomes(cancelled, w.owner, w.repoName) :
               workers' = Replace(workers, w, AfterBranches(w, out))
    /\ UNCHANGED <<mainPc, cancelled, repos, spawned, reposChan, reposClosed,
                   resultsChan, resultsClosed, errorsChan, errorsClosed, wg,
                   dispatcher, closerPc, resultsNil, errorsNil,
                   processedRepos, errors, warnings, panicked, report>>
    /\ UNCHANGED coordOther

\* r.client.ListCommits returns for the next selected branch.
WorkerListCommits ==
    /\ \E w \in BagToSet(workers) :
        /\ w.pc = "commits"
        /\ \E out \in ListCommitsOutcomes(cancelled, w.owner, w.repoName,
                                          Head(w.todo).Name) :
            /\ workers' = Replace(workers, w, AfterCommits(w, out))
            /\ warnings' =
                   IF out.ok THEN warnings
                   ELSE warnings \cup {[repo   |-> w.repo.FullName,
                                        branch |-> Head(w.todo).Name,
                                        err    |-> out.err]}
    /\ UNCHANGED <<mainPc, cancelled, repos, spawned, reposChan, reposClosed,
                   resultsChan, resultsClosed, errorsChan, errorsClosed, wg,
                   dispatcher, closerPc, resultsNil, errorsNil,
                   processedRepos, errors, panicked, report>>
    /\ UNCHANGED coordOther

\* resultsChan <- processedRepo
WorkerSendResult ==
    /\ Len(resultsChan) < ChanCap
    /\ \E w \in BagToSet(workers) :
        /\ w.pc = "sendResult"
        /\ resultsChan' = Append(resultsChan, w.repo)
        /\ workers' = Replace(workers, w, IdleWorker)
    /\ panicked' = (panicked \/ resultsClosed)
    /\ UNCHANGED <<mainPc, cancelled, repos, spawned, reposChan, reposClosed,
                   resultsClosed, errorsChan, errorsClosed, wg, dispatcher,
                   closerPc, resultsNil, errorsNil, processedRepos, errors,
                   warnings, report>>
    /\ UNCHANGED coordOther

\* errorsChan <- fmt.Errorf("repository %s: %w", repo.FullName, err); continue
WorkerSendError ==
    /\ Len(errorsChan) < ChanCap
    /\ \E w \in BagToSet(workers) :
        /\ w.pc = "sendError"
        /\ errorsChan' = Append(errorsChan, WrappedError(w))
        /\ workers' = Replace(workers, w, IdleWorker)
    /\ panicked' = (panicked \/ errorsClosed)
    /\ UNCHANGED <<mainPc, cancelled, repos, spawned, reposChan, reposClosed,
                   resultsChan, resultsClosed, errorsClosed, wg, dispatcher,
                   closerPc, resultsNil, errorsNil, processedRepos, errors,
                   warnings, report>>
    /\ UNCHANGED coordOther

\* --------------------------------------------- the closer and the collector

\* The closing goroutine going on without wg.Wait().
CloserWaitEarly ==
    /\ closerPc = "wait"
    /\ closerPc' = "closeResults"
    /\ UNCHANGED <<mainPc, cancelled, repos, spawned, reposChan, reposClosed,
                   resultsChan, resultsClosed, errorsChan, errorsClosed, wg,
                   workers, dispatcher, resultsNil, errorsNil, processedRepos,
                   errors, warnings, panicked, report>>
    /\ UNCHANGED coordOther

\* wg.Wait() returns.
CloserWait ==
    /\ closerPc = "wait"
    /\ wg = 0
    /\ closerPc' = "closeResults"
    /\ UNCHANGED <<mainPc, cancelled, repos, spawned, reposChan, reposClosed,
                   resultsChan, resultsClosed, errorsChan, errorsClosed, wg,
                   workers, dispatcher, resultsNil, errorsNil, processedRepos,
                   errors, warnings, panicked, report>>
    /\ UNCHANGED coordOther

\* close(resultsChan)
CloseResults ==
    /\ closerPc = "closeResults"
    /\ resultsClosed' = TRUE
    /\ panicked' = (panicked \/ resultsClosed)
    /\ closerPc' = "closeErrors"
    /\ UNCHANGED <<mainPc, cancelled, repos, spawned, reposChan, reposClosed,
                   resultsChan, errorsChan, errorsClosed, wg, workers,
                   dispatcher, resultsNil, errorsNil, processedRepos, errors,
                   warnings, report>>
    /\ UNCHANGED coordOther

\* close(errorsChan)
CloseErrors ==
    /\ closerPc = "closeErrors"
    /\ errorsClosed' = TRUE
    /\ panicked' = (panicked \/ errorsClosed)
    /\ closerPc' = "done"
    /\ UNCHANGED <<mainPc, cancelled, repos, spawned, reposChan, reposClosed,
                   resultsChan, resultsClosed, errorsChan, wg, workers,
                   dispatcher, resultsNil, errorsNil, processedRepos, errors,
                   warnings, report>>
    /\ UNCHANGED coordOther

\* The loop left as soon as either channel is nil.
AfterSelectEither(rNil, eNil) == IF rNil \/ eNil THEN "summary" ELSE "collect"

\* The collector loop ending when the results stream is done, whatever the
\* state of the errors stream.
AfterSelectResults(rNil, eNil) == IF rNil THEN "summary" ELSE "collect"

\* done = resultsChan == nil && errorsChan == nil, at the end of an iteration.
AfterSelect(rNil, eNil) == IF rNil /\ eNil THEN "summary" ELSE "collect"

\* case repo, ok := <-resultsChan
CollectResult ==
    /\ mainPc = "collect"
    /\ ~resultsNil
    /\ resultsChan # <<>> \/ resultsClosed
    /\ IF resultsChan # <<>>
       THEN /\ processedRepos' = Append(processedRepos, Head(resultsChan))
            /\ resultsChan' = Tail(resultsChan)
            /\ resultsNil' = resultsNil
       ELSE /\ resultsNil' = TRUE
            /\ UNCHANGED <<processedRepos, resultsChan>>
    /\ mainPc' = AfterSelect(resultsNil', errorsNil)
    /\ UNCHANGED <<cancelled, repos, spawned, reposChan, reposClosed,
                   resultsClosed, errorsChan, errorsClosed, wg, workers,
                   dispatcher, closerPc, errorsNil, errors, warnings,
                   panicked, report>>
    /\ UNCHANGED coordOther

\* case err, ok := <-errorsChan
CollectError ==
    /\ mainPc = "collect"
    /\ ~errorsNil
    /\ errorsChan # <<>> \/ errorsClosed
    /\ IF errorsChan # <<>>
       THEN /\ errors' = Append(errors, Head(errorsChan))
            /\ errorsChan' = Tail(errorsChan)
            /\ errorsNil' = errorsNil
       ELSE /\ errorsNil' = TRUE
            /\ UNCHANGED <<errors, errorsChan>>
    /\ mainPc' = AfterSelect(resultsNil, errorsNil')
    /\ UNCHANGED <<cancelled, repos, spawned, reposChan, reposClosed,
                   resultsChan, resultsClosed, errorsClosed, wg, workers,
                   dispatcher, closerPc, resultsNil, processedRepos, warnings,
                   panicked, report>>
    /\ UNCHANGED coordOther

\* GenerateReport returning an error when a repository failed.
ReturnedReportStrict(processed, errs) ==
    IF errs # <<>>
    THEN [returned |-> TRUE, err |-> "failed to process repositories"]
    ELSE [returned     |-> TRUE,
          err          |-> "",
          Repositories |-> processed,
          Summary      |-> generateSummary(processed)]

\* What GenerateReport returns once the collector loop has ended: the errors
\* are logged, the report is built from processedRepos.
ReturnedReport(processed, errs) ==
    [returned     |-> TRUE,
     err          |-> "",
     Repositories |-> processed,
     Summary      |-> generateSummary(processed)]

\* summary := r.generateSummary(processedRepos); return &models.Report{...}, nil
Summarize ==
    /\ mainPc = "summary"
    /\ report' = ReturnedReport(processedRepos, errors)
    /\ mainPc' = "returned"
    /\ UNCHANGED <<cancelled, repos, spawned, reposChan, reposClosed,
                   resultsChan, resultsClosed, errorsChan, errorsClosed, wg,
                   workers, dispatcher, closerPc, resultsNil, errorsNil,
                   processedRepos, errors, warnings, panicked>>
    /\ UNCHANGED coordOther

\* The caller cancels ctx while GenerateReport runs.
Cancel ==
    /\ ~cancelled
    /\ mainPc \notin {"returned", "error"}
    /\ cancelled' = TRUE
    /\ UNCHANGED <<mainPc, repos, spawned, reposChan, reposClosed,
                   resultsChan, resultsClosed, errorsChan, errorsClosed, wg,
                   workers, dispatcher, closerPc, resultsNil, errorsNil,
                   processedRepos, errors, warnings, panicked, report>>
    /\ UNCHANGED coordOther

\* The steps of the program itself (everything but the caller's Cancel).
Program ==
    \/ ListRepositoriesFails
    \/ ListRepositoriesOk
    \/ SpawnWorker
    \/ StartDispatcher
    \/ StartCloser
    \/ DispatchSend
    \/ DispatchClose
    \/ WorkerReceive
    \/ WorkerExit
    \/ WorkerListBranches
    \/ WorkerListCommits
    \/ WorkerSendResult
    \/ WorkerSendError
    \/ CloserWait
    \/ CloseResults
    \/ CloseErrors
    \/ CollectResult
    \/ CollectError
    \/ Summarize

Next == Program \/ Cancel

Spec == Init /\ [][Next]_vars

\* Goroutines that can step are scheduled, and provider calls return.
FairSpec == Spec /\ WF_vars(Program)

\* ------------------------------------------- generateSummary, step by step

\* Longest event sequence an aggregator input is built from.
MaxEvents == 7

SumRepoNames == <<<<"o", "/", "a">>, <<"o", "/", "b">>>>

\* The commits aggregator inputs are built from: two share the author key
\* "al" but differ in name and email; the third has no login.
SumCommits ==
    <<Commit("k1", Author("Al", "al@x", "al"), CommitStats(10, 5, 15)),
      Commit("k2", Author("Alan", "al@y", "al"), CommitStats(20, 3, 23)),
      Commit("k3", Author("Bo", "bo@x", ""), CommitStats(1, 0, 1))>>

\* An input is written as a sequence of events: <<"R", i>> opens a repository
\* named SumRepoNames[i], <<"B", 0>> opens a branch in the last repository,
\* <<"C", i>> adds SumCommits[i] to the last branch.
SumEvents ==
    {<<"R", i>> : i \in 1..Len(SumRepoNames)}
        \cup {<<"B", 0>>}
        \cup {<<"C", i>> : i \in 1..Len(SumCommits)}

EventAllowed(s, e) ==
    CASE e[1] = "R" -> TRUE
      [] e[1] = "B" -> s # <<>>
      [] OTHER      -> s # <<>> /\ s[Len(s)][1] \in {"B", "C"}

RECURSIVE EventSeqs(_)
EventSeqs(n) ==
    IF n = 0 THEN {<<>>}
    ELSE LET prev == EventSeqs(n - 1)
             last == {p \in prev : Len(p) = n - 1}
         IN  prev \cup {Append(pe[1], pe[2]) :
                           pe \in {x \in last \X SumEvents :
                                       EventAllowed(x[1], x[2])}}

\* The repository list an event sequence denotes.
RECURSIVE Decode(_, _)
Decode(events, acc) ==
    IF events = <<>> THEN acc
    ELSE LET e == Head(events)
             n == Len(acc)
         IN  CASE e[1] = "R" ->
                    Decode(Tail(events),
                           Append(acc, Repository(<<"r">>, SumRepoNames[e[2]],
                                                  "url", "main", <<>>)))
               [] e[1] = "B" ->
                    Decode(Tail(events),
                           [acc EXCEPT ![n].Branches =
                                Append(@, Branch("b", "s", <<>>))])
               [] OTHER ->
                    Decode(Tail(events),
                           [acc EXCEPT ![n].Branches[Len(acc[n].Branches)].Commits =
                                Append(@, SumCommits[e[2]])])

\* The inputs generateSummary is run on.
SumInputs == {Decode(es, <<>>) : es \in EventSeqs(MaxEvents)}

SumInit ==
    /\ mainPc = "off"
    /\ cancelled = FALSE
    /\ repos = <<>>
    /\ spawned = 0
    /\ reposChan = <<>>
    /\ reposClosed = FALSE
    /\ resultsChan = <<>>
    /\ resultsClosed = FALSE
    /\ errorsChan = <<>>
    /\ errorsClosed = FALSE
    /\ wg = 0
    /\ workers = EmptyBag
    /\ dispatcher = [pc |-> "off", i |-> 0]
    /\ closerPc = "off"
    /\ resultsNil = FALSE
    /\ errorsNil = FALSE
    /\ processedRepos = <<>>
    /\ errors = <<>>
    /\ warnings = {}
    /\ panicked = FALSE
    /\ report = NoReport
    /\ sumRepos \in SumInputs
    /\ sumPos = 0
    /\ summary = EmptyMap
    /\ SelIdle
    /\ KeyIdle
    /\ CallsIdle

\* One iteration of generateSummary's innermost loop.
FoldStep ==
    /\ sumPos < Len(CommitItems(sumRepos))
    /\ LET item == CommitItems(sumRepos)[sumPos + 1]
       IN  summary' = FoldCommit(summary, item.repo, item.commit)
    /\ sumPos' = sumPos + 1
    /\ UNCHANGED <<sumRepos, coordVars, selVars, keyVars, callVars>>

SumNext == FoldStep

SumSpec == SumInit /\ [][SumNext]_vars

\* ------------------------------------ selectBranchesToProcess on drawn inputs

\* Longest branch list drawn from BranchUniverse.
MaxBranches == 3

BranchNames ==
    {"main", "master", "develop", "dev", "staging", "production", "feature/x"}

\* Two branches may carry the same name and differ in their head commit.
BranchUniverse == {Branch(n, sha, <<>>) : n \in BranchNames, sha \in {"s1", "s2"}}

\* The branch list of the end-to-end scenario.
ScenarioBranches ==
    <<Branch("feature/x", "s1", <<>>), Branch("main", "s1", <<>>),
      Branch("develop", "s1", <<>>), Branch("master", "s1", <<>>),
      Branch("feature/y", "s1", <<>>)>>

\* A branch of every drawn name, the priority names in reverse.
AllNamedBranches ==
    <<Branch("production", "s1", <<>>), Branch("staging", "s1", <<>>),
      Branch("feature/x", "s1", <<>>), Branch("dev", "s1", <<>>),
      Branch("develop", "s1", <<>>), Branch("master", "s1", <<>>),
      Branch("main", "s1", <<>>)>>

SelBranchLists ==
    SeqsUpTo(BranchUniverse, MaxBranches) \cup {ScenarioBranches, AllNamedBranches}

\* Default branch names: every drawn name and one no branch carries.
SelDefaults == BranchNames \cup {"trunk"}

SelInit ==
    /\ mainPc = "off"
    /\ cancelled = FALSE
    /\ repos = <<>>
    /\ spawned = 0
    /\ reposChan = <<>>
    /\ reposClosed = FALSE
    /\ resultsChan = <<>>
    /\ resultsClosed = FALSE
    /\ errorsChan = <<>>
    /\ errorsClosed = FALSE
    /\ wg = 0
    /\ workers = EmptyBag
    /\ dispatcher = [pc |-> "off", i |-> 0]
    /\ closerPc = "off"
    /\ resultsNil = FALSE
    /\ errorsNil = FALSE
    /\ processedRepos = <<>>
    /\ errors = <<>>
    /\ warnings = {}
    /\ panicked = FALSE
    /\ report = NoReport
    /\ SumIdle
    /\ selBranches \in SelBranchLists
    /\ selDefault \in SelDefaults
    /\ selDone = FALSE
    /\ selected = <<>>
    /\ KeyIdle
    /\ CallsIdle

\* A call of selectBranchesToProcess returns.
SelectCall ==
    /\ ~selDone
    /\ selected' = selectBranchesToProcess(selBranches, selDefault)
    /\ selDone' = TRUE
    /\ UNCHANGED <<selBranches, selDefault, coordVars, sumVars, keyVars,
                   callVars>>

SelNext == SelectCall

SelSpec == SelInit /\ [][SelNext]_vars

\* ------------------------------------------- getAuthorKey on drawn authors

\* The values of an author's Name, Email and Login.
KeyStrings == {"", "x", "y", "z"}

KeyAuthors ==
    {Author(n, e, l) : n \in KeyStrings, e \in KeyStrings, l \in KeyStrings}

KeyInit ==
    /\ mainPc = "off"
    /\ cancelled = FALSE
    /\ repos = <<>>
    /\ spawned = 0
    /\ reposChan = <<>>
    /\ reposClosed = FALSE
    /\ resultsChan = <<>>
    /\ resultsClosed = FALSE
    /\ errorsChan = <<>>
    /\ errorsClosed = FALSE
    /\ wg = 0
    /\ workers = EmptyBag
    /\ dispatcher = [pc |-> "off", i |-> 0]
    /\ closerPc = "off"
    /\ resultsNil = FALSE
    /\ errorsNil = FALSE
    /\ processedRepos = <<>>
    /\ errors = <<>>
    /\ warnings = {}
    /\ panicked = FALSE
    /\ report = NoReport
    /\ SumIdle
    /\ SelIdle
    /\ keyCall \in {[returned |-> FALSE, author |-> a] : a \in KeyAuthors}
    /\ CallsIdle

\* A call of getAuthorKey returns.
KeyCall ==
    /\ ~keyCall.returned
    /\ keyCall' = [returned |-> TRUE, author |-> keyCall.author,
                   key |-> getAuthorKey(keyCall.author)]
    /\ UNCHANGED <<coordVars, sumVars, selVars, callVars>>

KeyNext == KeyCall

KeySpec == KeyInit /\ [][KeyNext]_vars

\* GenerateReport is not running.
CoordOff ==
    /\ mainPc = "off"
    /\ cancelled = FALSE
    /\ repos = <<>>
    /\ spawned = 0
    /\ reposChan = <<>>
    /\ reposClosed = FALSE
    /\ resultsChan = <<>>
    /\ resultsClosed = FALSE
    /\ errorsChan = <<>>
    /\ errorsClosed = FALSE
    /\ wg = 0
    /\ workers = EmptyBag
    /\ dispatcher = [pc |-> "off", i |-> 0]
    /\ closerPc = "off"
    /\ resultsNil = FALSE
    /\ errorsNil = FALSE
    /\ processedRepos = <<>>
    /\ errors = <<>>
    /\ warnings = {}
    /\ panicked = FALSE
    /\ report = NoReport

\* ------------------------------------ GitHubClient.ListCommits, step by step

\* Longest commit list the provider holds for the branch.
MaxListed == 2

\* github.RepositoryCommit as the list call returns it; HasAuthor is
\* commit.GetAuthor() != nil.
RepositoryCommit(sha, name, email, hasAuthor, login) ==
    [SHA |-> sha, Name |-> name, Email |-> email, HasAuthor |-> hasAuthor,
     Login |-> login]

ListedUniverse ==
    {RepositoryCommit(sha, "n", "e", h, IF h THEN "l" ELSE "") :
        sha \in {"c1", "c2"}, h \in BOOLEAN}

\* The statistics a detail call may carry: the service's Total need not be
\* the sum of its Additions and Deletions.
DetailStats ==
    {CommitStats(a, d, t) : a \in 0..1, d \in 0..1, t \in 0..2}

\* The models.Commit built from a listed commit and its detail call.
ConvertCommit(c, stats) ==
    Commit(c.SHA,
           Author(c.Name, c.Email, IF c.HasAuthor THEN c.Login ELSE ""),
           CommitStats(stats.Additions, stats.Deletions, stats.Total))

CommitsInit ==
    /\ CoordOff
    /\ SumIdle
    /\ SelIdle
    /\ KeyIdle
    /\ ConvIdle
    /\ MainIdle
    /\ commitsCall \in
           {[NoCommitsCall EXCEPT !.pc = "pages", !.listed = l] :
               l \in SeqsUpTo(ListedUniverse, MaxListed)}

\* One call of Repositories.ListCommits: it fails, or returns the next page
\* of the provider's list; the loop ends when resp.NextPage == 0.
CommitsPage ==
    /\ commitsCall.pc = "pages"
    /\ LET got  == Len(commitsCall.allCommits)
           left == Len(commitsCall.listed) - got
       IN  \/ commitsCall' = [commitsCall EXCEPT !.pc = "returned",
                                                !.err = "failed to list commits"]
           \/ \E n \in Min(1, left)..left :
                 commitsCall' =
                     [commitsCall EXCEPT
                        !.allCommits = SubSeq(commitsCall.listed, 1, got + n),
                        !.pc = IF n = left THEN "details" ELSE "pages"]
    /\ UNCHANGED <<coordVars, sumVars, selVars, keyVars, convCall, mainRun>>

\* One iteration of the loop over allCommits in which a failing
\* Repositories.GetCommit ends the whole call with the error.
CommitsDetailAbort ==
    /\ commitsCall.pc = "details"
    /\ commitsCall.pos < Len(commitsCall.allCommits)
    /\ LET commit == commitsCall.allCommits[commitsCall.pos + 1]
       IN  \/ commitsCall' = [commitsCall EXCEPT
                                 !.pos = @ + 1,
                                 !.detailOk = Append(@, FALSE),
                                 !.pc = "returned",
                                 !.result = <<>>,
                                 !.err = "failed to get commit"]
           \/ \E stats \in DetailStats :
                 commitsCall' =
                     [commitsCall EXCEPT
                        !.pos = @ + 1,
                        !.detailOk = Append(@, TRUE),
                        !.result = Append(@, ConvertCommit(commit, stats))]
    /\ UNCHANGED <<coordVars, sumVars, selVars, keyVars, convCall, mainRun>>

\* One iteration of the loop over allCommits: Repositories.GetCommit fails
\* and the commit is skipped, or the commit is appended with its statistics.
CommitsDetail ==
    /\ commitsCall.pc = "details"
    /\ commitsCall.pos < Len(commitsCall.allCommits)
    /\ LET commit == commitsCall.allCommits[commitsCall.pos + 1]
       IN  \/ commitsCall' = [commitsCall EXCEPT
                                 !.pos = @ + 1,
                                 !.detailOk = Append(@, FALSE)]
           \/ \E stats \in DetailStats :
                 commitsCall' =
                     [commitsCall EXCEPT
                        !.pos = @ + 1,
                        !.detailOk = Append(@, TRUE),
                        !.result = Append(@, ConvertCommit(commit, stats))]
    /\ UNCHANGED <<coordVars, sumVars, selVars, keyVars, convCall, mainRun>>

\* return result, nil
CommitsReturn ==
    /\ commitsCall.pc = "details"
    /\ commitsCall.pos = Len(commitsCall.allCommits)
    /\ commitsCall' = [commitsCall EXCEPT !.pc = "returned"]
    /\ UNCHANGED <<coordVars, sumVars, selVars, keyVars, convCall, mainRun>>

CommitsNext == CommitsPage \/ CommitsDetail \/ CommitsReturn

CommitsSpec == CommitsInit /\ [][CommitsNext]_vars

\* -------------------------------------- GitHubClient.convertRepositories

\* Longest repository list the provider returns.
MaxProviderRepos == 3

\* github.Repository, as far as convertRepositories reads it.
ProviderRepository(name, fullName, htmlURL, defaultBranch, archived) ==
    [Name |-> name, FullName |-> fullName, HTMLURL |-> htmlURL,
     DefaultBranch |-> defaultBranch, Archived |-> archived]

ProviderRepoUniverse ==
    {ProviderRepository(<<n>>, <<"o", "/", n>>, "url", "main", a) :
        n \in {"a", "b"}, a \in BOOLEAN}

\* convertRepositories keeping the archived repositories.
RECURSIVE convertRepositoriesAll(_)
convertRepositoriesAll(rs) ==
    IF rs = <<>> THEN <<>>
    ELSE LET repo == Head(rs)
         IN  <<Repository(repo.Name, repo.FullName, repo.HTMLURL,
                          repo.DefaultBranch, <<>>)>>
                 \o convertRepositoriesAll(Tail(rs))

\* GitHubClient.convertRepositories
RECURSIVE convertRepositories(_)
convertRepositories(rs) ==
    IF rs = <<>> THEN <<>>
    ELSE LET repo == Head(rs)
         IN  IF repo.Archived THEN convertRepositories(Tail(rs))
             ELSE <<Repository(repo.Name, repo.FullName, repo.HTMLURL,
                               repo.DefaultBranch, <<>>)>>
                      \o convertRepositories(Tail(rs))

ConvInit ==
    /\ CoordOff
    /\ SumIdle
    /\ SelIdle
    /\ KeyIdle
    /\ CommitsIdle
    /\ MainIdle
    /\ convCall \in
           {[returned |-> FALSE, repos |-> rs] :
               rs \in SeqsUpTo(ProviderRepoUniverse, MaxProviderRepos)}

\* The call of convertRepositories at the end of ListRepositories returns.
ConvCall ==
    /\ ~convCall.returned
    /\ convCall' = [returned |-> TRUE, repos |-> convCall.repos,
                    result |-> convertRepositories(convCall.repos)]
    /\ UNCHANGED <<coordVars, sumVars, selVars, keyVars, commitsCall, mainRun>>

ConvNext == ConvCall

ConvSpec == ConvInit /\ [][ConvNext]_vars

\* ------------------------------------------------------------------- main

\* The value of a date flag: absent (""), a text that is not of the layout
\* 2006-01-02, or year-month-day as typed.
DateArg(kind, y, m, d) == [kind |-> kind, y |-> y, m |-> m, d |-> d]

NoDate == DateArg("absent", 0, 0, 0)

DateArgs ==
    {NoDate, DateArg("text", 0, 0, 0),
     DateArg("ymd", 2024, 1, 1), DateArg("ymd", 2024, 1, 31),
     DateArg("ymd", 2024, 2, 1), DateArg("ymd", 2024, 2, 30),
     DateArg("ymd", 2024, 13, 1)}

\* Days of the months of 2024.
DaysIn(m) ==
    CASE m = 2 -> 29
      [] m \in {4, 6, 9, 11} -> 30
      [] OTHER -> 31

\* Days from 2024-01-01 to the first day of month m of 2024.
RECURSIVE DaysBefore(_)
DaysBefore(m) == IF m = 1 THEN 0 ELSE DaysBefore(m - 1) + DaysIn(m - 1)

\* time.Parse("2006-01-02", s): the instant, in days since 2024-01-01, or an
\* error for another layout, a month or a day out of range.
ParseDate(arg) ==
    IF /\ arg.kind = "ymd"
       /\ arg.y = 2024
       /\ arg.m \in 1..12
       /\ arg.d \in 1..DaysIn(arg.m)
    THEN Ok(DaysBefore(arg.m) + arg.d - 1)
    ELSE Fail("invalid date")

\* time.Now() at the start of the run, in days since 2024-01-01.
Clock == {15, 45}

\* AddDate(0, 0, -30)
DefaultWindowDays == 30

\* The command lines: -all-branches given or not, -target, -since, -until.
MainArgs ==
    [allBranches : BOOLEAN, target : {"", "o"}, since : DateArgs,
     until : DateArgs]

\* The branches GenerateReport analyzes of the repository o/a.
AnalyzedBranches ==
    selectBranchesToProcess(ProviderBranches(OwnerO, RepoA.Name),
                            RepoA.DefaultBranch)

Exited(run, status) == [run EXCEPT !.pc = "exited", !.exit = status]

MainInit ==
    /\ CoordOff
    /\ SumIdle
    /\ SelIdle
    /\ KeyIdle
    /\ CommitsIdle
    /\ ConvIdle
    /\ mainRun \in
           {[pc |-> "flags", args |-> a, now |-> n, since |-> 0, until |-> 0,
             exit |-> 0, report |-> NoReport] :
               a \in MainArgs, n \in Clock}

\* flag.Parse() and the check of -target: a flag that is not defined ends the
\* run with status 2, an empty target with status 1.
MainFlags ==
    /\ mainRun.pc = "flags"
    /\ mainRun' =
           IF mainRun.args.allBranches THEN Exited(mainRun, 2)
           ELSE IF mainRun.args.target = "" THEN Exited(mainRun, 1)
           ELSE [mainRun EXCEPT !.pc = "dates"]
    /\ UNCHANGED <<coordVars, sumVars, selVars, keyVars, commitsCall, convCall>>

\* sinceTime and untilTime: parsed, or defaulted from the clock.
MainDates ==
    /\ mainRun.pc = "dates"
    /\ LET sinceTime == IF mainRun.args.since # NoDate
                        THEN ParseDate(mainRun.args.since)
                        ELSE Ok(mainRun.now - DefaultWindowDays)
           untilTime == IF mainRun.args.until # NoDate
                        THEN ParseDate(mainRun.args.until)
                        ELSE Ok(mainRun.now)
       IN  mainRun' =
               IF ~sinceTime.ok \/ ~untilTime.ok THEN Exited(mainRun, 1)
               ELSE [mainRun EXCEPT !.pc = "generate",
                                    !.since = sinceTime.val,
                                    !.until = untilTime.val]
    /\ UNCHANGED <<coordVars, sumVars, selVars, keyVars, commitsCall, convCall>>

\* rep.GenerateReport(ctx, *orgUser, sinceTime, untilTime): an error ends the
\* run, a report carries the window it was called with.
MainGenerate ==
    /\ mainRun.pc = "generate"
    /\ \/ mainRun' = Exited(mainRun, 1)
       \/ mainRun' =
              [mainRun EXCEPT
                 !.pc = "output",
                 !.report = [returned |-> TRUE,
                             Target   |-> mainRun.args.target,
                             Period   |-> [Since |-> mainRun.since,
                                           Until |-> mainRun.until],
                             Analyzed |-> AnalyzedBranches]]
    /\ UNCHANGED <<coordVars, sumVars, selVars, keyVars, commitsCall, convCall>>

\* rep.OutputReport(report, *outputFile, *format) and the end of main.
MainOutput ==
    /\ mainRun.pc = "output"
    /\ \E status \in {0, 1} : mainRun' = Exited(mainRun, status)
    /\ UNCHANGED <<coordVars, sumVars, selVars, keyVars, commitsCall, convCall>>

MainNext == MainFlags \/ MainDates \/ MainGenerate \/ MainOutput

MainSpec == MainInit /\ [][MainNext]_vars

\* ============================================================ properties

\* Sum of f[x] over x in S.
RECURSIVE SetSum(_, _)
SetSum(f, S) ==
    IF S = {} THEN 0
    ELSE LET x == CHOOSE y \in S : TRUE
         IN  f[x] + SetSum(f, S \ {x})

\* Number of workers whose local state is at pc.
NumAt(pc) ==
    LET ws == {w \in BagToSet(workers) : w.pc = pc}
    IN  SetSum([w \in ws |-> CopiesIn(w, workers)], ws)

\* Number of repositories being processed: workers between receiving a
\* repository and having sent its result.
InFlight == BagCardinality(workers) - NumAt("recv") - NumAt("exited")

\* The repositories workers hold as successes, about to be sent.
HeldResults ==
    LET ws == {w \in BagToSet(workers) : w.pc = "sendResult"}
    IN  [r \in {w.repo : w \in ws} |->
            SetSum([w \in ws |-> IF w.repo = r THEN CopiesIn(w, workers) ELSE 0], ws)]

\* The failures workers hold, about to be sent.
HeldErrors ==
    LET ws == {w \in BagToSet(workers) : w.pc = "sendError"}
    IN  [e \in {WrappedError(w) : w \in ws} |->
            SetSum([w \in ws |-> IF WrappedError(w) = e
                                 THEN CopiesIn(w, workers) ELSE 0], ws)]

\* Every success produced so far, wherever it is on its way to the caller.
SuccessBag == HeldResults (+) SeqToBag(resultsChan) (+) SeqToBag(processedRepos)

\* Every failure produced so far, wherever it is on its way to the caller.
FailureBag == HeldErrors (+) SeqToBag(errorsChan) (+) SeqToBag(errors)

FullNames(rs) == [i \in 1..Len(rs) |-> rs[i].FullName]

ErrorRepos(es) == [i \in 1..Len(es) |-> es[i].repo]

\* The collector loop has ended.
Collected == mainPc \in {"summary", "returned"}

Malformed(fullName) == Len(Split(fullName, "/")) # 2

\* C1: when the collector loop of GenerateReport has ended, the successes and
\* the failures together are as many as the input repositories, and every
\* input repository (by full name, counted with multiplicity) is in exactly
\* one of the two collections.
C1_NoRepositoryDropped ==
    Collected =>
        /\ Len(processedRepos) + Len(errors) = Len(repos)
        /\ SeqToBag(FullNames(repos))
               = SeqToBag(FullNames(processedRepos)) (+) SeqToBag(ErrorRepos(errors))

C1_Witness ==
    /\ mainPc = "returned"
    /\ Len(repos) = 2
    /\ Len(processedRepos) = 1
    /\ Len(errors) = 1

AllWorkersExited == NumAt("exited") = BagCardinality(workers)

\* All workers returned and both result streams are closed and empty.  (With
\* no repositories the sending goroutine may still be about to close
\* reposChan at this point.)
Drained ==
    /\ AllWorkersExited
    /\ resultsClosed /\ errorsClosed
    /\ resultsChan = <<>> /\ errorsChan = <<>>

\* C2: under fair scheduling, with every provider call returning,
\* GenerateReport ends for every input size; and whenever the collector loop
\* has ended, all workers have exited and both result streams are closed and
\* empty.
C2_CollectorTerminates ==
    /\ <>(mainPc \in {"returned", "error"})
    /\ [](Collected => Drained)

C2_Witness ==
    /\ mainPc = "returned"
    /\ Len(repos) = 2
    /\ Drained

C2_WitnessEmpty ==
    /\ mainPc = "returned"
    /\ repos = <<>>
    /\ Drained

\* C3: a repository's failure never aborts the batch. No step removes a
\* success or a failure already produced (in particular no failure of another
\* repository does); when the collector loop has ended the successful set is
\* exactly the successes produced and the failure list exactly the failures
\* produced; a repository with a malformed full name is never among the
\* successes and each one is in the failure list.
C3_FailureDoesNotAbortBatch ==
    /\ [][SuccessBag \sqsubseteq SuccessBag' /\ FailureBag \sqsubseteq FailureBag']_vars
    /\ [](Collected =>
            /\ SeqToBag(processedRepos) = SuccessBag
            /\ SeqToBag(errors) = FailureBag
            /\ \A i \in 1..Len(processedRepos) : ~Malformed(processedRepos[i].FullName)
            /\ Cardinality({i \in 1..Len(repos) : Malformed(repos[i].FullName)})
                   = Cardinality({i \in 1..Len(errors) : errors[i].err = ErrMalformed})
            /\ \A i \in 1..Len(errors) :
                   errors[i].err = ErrMalformed <=> Malformed(errors[i].repo))

C3_Witness ==
    /\ mainPc = "returned"
    /\ repos = <<RepoBad, RepoA>>
    /\ Len(processedRepos) = 1
    /\ processedRepos[1].FullName = RepoA.FullName
    /\ errors = <<[repo |-> RepoBad.FullName, err |-> ErrMalformed]>>

\* C4: once the pool loop has ended, min(maxWorkers, len(repos)) workers
\* have been started, and at no time are more repositories being processed
\* than that.
C4_PoolSize ==
    /\ mainPc \notin {"list", "spawn", "error"} =>
           /\ spawned = Min(maxWorkers, Len(repos))
           /\ BagCardinality(workers) = spawned
    /\ InFlight <= Min(maxWorkers, Len(repos))
    /\ BagCardinality(workers) <= Min(maxWorkers, Len(repos))

C4_Witness ==
    /\ Len(repos) > maxWorkers
    /\ InFlight = maxWorkers

\* C5: neither result stream ever buffers more items than there are input
\* repositories, and a worker that is about to send a result finds room in
\* the stream it sends on.
C5_SendNeverBlocks ==
    /\ Len(resultsChan) <= Len(repos)
    /\ Len(errorsChan) <= Len(repos)
    /\ NumAt("sendResult") > 0 => Len(resultsChan) < ChanCap
    /\ NumAt("sendError") > 0 => Len(errorsChan) < ChanCap
    /\ Len(resultsChan) + Len(errorsChan) + NumAt("sendResult") + NumAt("sendError")
           <= Len(repos)

\* All workers are done while the collector has read nothing.
C5_Witness ==
    /\ Len(repos) = 2
    /\ AllWorkersExited
    /\ processedRepos = <<>> /\ errors = <<>>
    /\ ~resultsNil /\ ~errorsNil
    /\ Len(resultsChan) + Len(errorsChan) = 2

\* Number of failures produced so far that carry the context's error.
CancelledFailures ==
    LET es == {e \in BagToSet(FailureBag) : e.err = ErrCancelled}
    IN  SetSum([e \in es |-> CopiesIn(e, FailureBag)], es)

CancelledWarnings == {w \in warnings : w.err = ErrCancelled}

\* C6 as claimed: once the collector loop has ended, every repository one of
\* whose provider calls failed because of the cancellation is in the failure
\* list and not in the successful set.
C6_CancelledCallsAreFailures ==
    Collected =>
        \A w \in CancelledWarnings :
            /\ \E i \in 1..Len(errors) : errors[i].repo = w.repo
            /\ \A i \in 1..Len(processedRepos) : processedRepos[i].FullName # w.repo

\* C6, amended: a branch-list call that returns under a cancelled context
\* adds that repository to the failures and nothing to the successes; no
\* step (the cancellation included) removes a success already produced, and
\* the successes produced are what the collector returns; a repository whose
\* commit-list call failed because of the cancellation is returned in the
\* successful set, without that branch.
C6_CancellationPerCall ==
    /\ [][cancelled /\ NumAt("branches")' < NumAt("branches") =>
            /\ CancelledFailures' = CancelledFailures + 1
            /\ SuccessBag' = SuccessBag]_vars
    /\ [][SuccessBag \sqsubseteq SuccessBag']_vars
    /\ [](Collected =>
            /\ SeqToBag(processedRepos) = SuccessBag
            /\ SeqToBag(errors) = FailureBag
            /\ \A w \in CancelledWarnings :
                   \E i \in 1..Len(processedRepos) :
                       /\ processedRepos[i].FullName = w.repo
                       /\ \A j \in 1..Len(processedRepos[i].Branches) :
                              processedRepos[i].Branches[j].Name # w.branch)

\* One repository completed before the cancellation, one failed its branch
\* list because of it, and a cancelled commit fetch was logged.
C6_Witness ==
    /\ mainPc = "returned"
    /\ cancelled
    /\ Len(processedRepos) = 1
    /\ Len(errors) = 1
    /\ errors[1].err = ErrCancelled
    /\ CancelledWarnings # {}

\* ---------------------------------------------------------- the aggregator

\* The commits folded so far.
Folded == SubSeq(CommitItems(sumRepos), 1, sumPos)

SumDone == sumPos = Len(CommitItems(sumRepos))

\* The totals of a contributor entry agree with its per-repository map.
TotalsAgree(stats) ==
    LET rs == DOMAIN stats.Repositories
    IN  /\ stats.TotalCommits
               = SetSum([r \in rs |-> stats.Repositories[r].Commits], rs)
        /\ stats.TotalAdditions
               = SetSum([r \in rs |-> stats.Repositories[r].Additions], rs)
        /\ stats.TotalDeletions
               = SetSum([r \in rs |-> stats.Repositories[r].Deletions], rs)

\* C7: after every commit folded in, and in the summary generateSummary
\* returns, every contributor's TotalCommits, TotalAdditions and
\* TotalDeletions are the sums of its per-repository Commits, Additions and
\* Deletions.
C7_TotalsAreSums ==
    /\ \A k \in DOMAIN summary : TotalsAgree(summary[k])
    /\ LET final == generateSummary(sumRepos)
       IN  /\ \A k \in DOMAIN final : TotalsAgree(final[k])
           /\ SumDone => summary = final

\* A contributor with commits in two repositories, more than one in one.
C7_Witness ==
    /\ SumDone
    /\ \E k \in DOMAIN summary :
        /\ Cardinality(DOMAIN summary[k].Repositories) = 2
        /\ summary[k].TotalCommits >= 3
        /\ summary[k].TotalAdditions > 0
        /\ summary[k].TotalDeletions > 0

\* The sequences that hold the elements of s in another order.
Perms(s) ==
    {[i \in 1..Len(s) |-> s[f[i]]] : f \in Permutations(1..Len(s))}

\* The inputs that differ from rs in the order of the repositories, of the
\* branches of one repository, or of the commits of one branch.
Reorderings(rs) ==
    Perms(rs)
        \cup UNION {{[rs EXCEPT ![i].Branches = p] : p \in Perms(rs[i].Branches)} :
                    i \in 1..Len(rs)}
        \cup UNION {UNION {{[rs EXCEPT ![i].Branches[j].Commits = p] :
                               p \in Perms(rs[i].Branches[j].Commits)} :
                           j \in 1..Len(rs[i].Branches)} :
                    i \in 1..Len(rs)}

\* C8 as claimed: the summary of every reordering of the input is the
\* summary of the input, Name, Email and Login included.
C8_OrderIndependent ==
    SumDone => \A rs \in Reorderings(sumRepos) : generateSummary(rs) = summary

\* Two commits with the author key "al" that differ in name and email.
C8_Witness ==
    /\ SumDone
    /\ sumRepos = Decode(<<<<"R", 1>>, <<"B", 0>>, <<"C", 1>>, <<"C", 2>>>>, <<>>)

\* C9: every commit record folded so far is counted exactly once. The
\* TotalCommits of all contributors add up to the number of commits folded;
\* each contributor's TotalCommits is the number of folded commits with its
\* author key, and each per-repository bucket's Commits the number of those
\* in the repository of that full name; every folded commit has its
\* contributor and its bucket.
C9_EachCommitCountedOnce ==
    LET keyOf(i) == getAuthorKey(Folded[i].commit.Author)
    IN  /\ SetSum([k \in DOMAIN summary |-> summary[k].TotalCommits], DOMAIN summary)
               = sumPos
        /\ \A i \in 1..sumPos :
               /\ keyOf(i) \in DOMAIN summary
               /\ Folded[i].repo \in DOMAIN summary[keyOf(i)].Repositories
        /\ \A k \in DOMAIN summary :
               /\ summary[k].TotalCommits
                      = Cardinality({i \in 1..sumPos : keyOf(i) = k})
               /\ \A r \in DOMAIN summary[k].Repositories :
                      summary[k].Repositories[r].Commits
                          = Cardinality({i \in 1..sumPos :
                                             keyOf(i) = k /\ Folded[i].repo = r})
        /\ SumDone =>
               LET final == generateSummary(sumRepos)
               IN  SetSum([k \in DOMAIN final |-> final[k].TotalCommits], DOMAIN final)
                       = Len(CommitItems(sumRepos))

\* Two contributors and two repositories, all commits folded.
C9_Witness ==
    /\ SumDone
    /\ sumPos >= 3
    /\ Cardinality(DOMAIN summary) = 2
    /\ Cardinality({sumRepos[i].FullName : i \in 1..Len(sumRepos)}) = 2

\* ------------------------------------------------------ the branch selector

Names(bs) == [i \in 1..Len(bs) |-> bs[i].Name]

\* The call of the end-to-end scenario has returned.
ScenarioCall ==
    /\ selDone
    /\ Names(selBranches) = <<"feature/x", "main", "develop", "master", "feature/y">>
    /\ selDefault = "main"

\* C10 as claimed: the scenario's output is [main, develop, master].
C10_ScenarioOutput ==
    ScenarioCall => Names(selected) = <<"main", "develop", "master">>

\* C10, amended: for [feature/x, main, develop, master, feature/y] with
\* default main, selectBranchesToProcess returns exactly [main, master,
\* develop], in that order: the default first, then the priority list's order.
C10_ScenarioOutputInPriorityOrder ==
    ScenarioCall =>
        /\ Names(selected) = <<"main", "master", "develop">>
        /\ selected = <<selBranches[2], selBranches[4], selBranches[3]>>

C10_Witness == ScenarioCall

\* The names the branches of bs carry.
NameSet(bs) == {bs[i].Name : i \in 1..Len(bs)}

\* The default name if a branch carries it, then the other priority names a
\* branch carries, in the order of the priority list.
ExpectedNames(bs, defaultBranch) ==
    (IF defaultBranch \in NameSet(bs) THEN <<defaultBranch>> ELSE <<>>)
        \o SelectSeq(importantBranches,
                     LAMBDA n : n \in NameSet(bs) /\ n # defaultBranch)

\* C11: the output of selectBranchesToProcess holds branches of the input,
\* named: the default name first when a branch of the input carries it, then
\* the priority names carried by the input in the order main, master,
\* develop, dev, staging, production; every reordering of the input yields
\* the same sequence of names.
C11_OutputOrder ==
    selDone =>
        /\ Names(selected) = ExpectedNames(selBranches, selDefault)
        /\ Range(selected) \subseteq Range(selBranches)
        /\ \A p \in Perms(selBranches) :
               Names(selectBranchesToProcess(p, selDefault)) = Names(selected)

\* A default that is no priority name, listed between two priority branches
\* that the input lists against the priority order.
C11_Witness ==
    /\ selDone
    /\ Names(selBranches) = <<"develop", "feature/x", "main">>
    /\ selDefault = "feature/x"
    /\ Names(selected) = <<"feature/x", "main", "develop">>

\* C12: every selected branch is named by the default name or by one of the
\* six priority names, the default-named branch is selected whenever the
\* input holds one, and no name is selected twice, so that at most seven
\* branches are selected; also for inputs with repeated names and for a
\* default that is a priority name.
C12_SelectedNames ==
    selDone =>
        /\ \A i \in 1..Len(selected) :
               selected[i].Name \in {selDefault} \cup Range(importantBranches)
        /\ selDefault \in NameSet(selBranches) =>
               selDefault \in NameSet(selected)
        /\ \A i, j \in 1..Len(selected) :
               selected[i].Name = selected[j].Name => i = j
        /\ Len(selected) <= 7

\* Seven branches selected: the six priority names and another default.
C12_Witness ==
    /\ selDone
    /\ Len(selected) = 7
    /\ selDefault \notin Range(importantBranches)

\* The inputs left when entries that occur again in bs are removed.
DuplicateRemovals(bs) == {t \in SubSeqs(bs) : Range(t) = Range(bs)}

\* bs without the entries that repeat an earlier entry.
RECURSIVE Dedup(_)
Dedup(bs) ==
    IF bs = <<>> THEN <<>>
    ELSE LET front == Dedup(SubSeq(bs, 1, Len(bs) - 1))
         IN  IF bs[Len(bs)] \in Range(front) THEN front
             ELSE Append(front, bs[Len(bs)])

\* Branches of bs that carry the same name are the same branch.
SameNamedIdentical(bs) ==
    \A i, j \in 1..Len(bs) : bs[i].Name = bs[j].Name => bs[i] = bs[j]

\* C13 as claimed: every reordering of the input, and every input with
\* repeated entries removed, yields the same set of selected branches.
C13_SameBranchSet ==
    selDone =>
        \A p \in Perms(selBranches) \cup DuplicateRemovals(selBranches) :
            Range(selectBranchesToProcess(p, selDefault)) = Range(selected)

\* C13, amended: every reordering of the input, and every input with
\* repeated entries removed, yields the same set of selected names; it
\* yields the same set of selected branches when the branches of the input
\* that carry the same name are identical, and removing the entries that
\* repeat an earlier entry never changes the output.
C13_SameNameSet ==
    selDone =>
        /\ \A p \in Perms(selBranches) \cup DuplicateRemovals(selBranches) :
               LET out == selectBranchesToProcess(p, selDefault)
               IN  /\ NameSet(out) = NameSet(selected)
                   /\ SameNamedIdentical(selBranches) =>
                          Range(out) = Range(selected)
        /\ selectBranchesToProcess(Dedup(selBranches), selDefault) = selected

\* An input with a repeated entry, listed against the priority order, of
\* which two branches are selected.
C13_Witness ==
    /\ selDone
    /\ Len(selBranches) = 3
    /\ selBranches[1] = selBranches[3]
    /\ Names(selBranches) = <<"develop", "main", "develop">>
    /\ Len(selected) = 2


\* ------------------------------------------------------- processRepository

\* Number of "/" in a full name.
Separators(fullName) ==
    Cardinality({i \in 1..Len(fullName) : fullName[i] = "/"})

\* The workers between receiving a repository and sending its outcome.
Processing ==
    {w \in BagToSet(workers) :
        w.pc \in {"branches", "commits", "sendResult", "sendError"}}

\* processRepository has returned to the worker w.
HasReturned(w) == w.pc \in {"sendResult", "sendError"}

\* The selected branches whose ListCommits call succeeded, in the order of
\* the selection, each with the commits its call returned.
RECURSIVE Fetched(_, _)
Fetched(sel, lcs) ==
    IF sel = <<>> \/ lcs = <<>> THEN <<>>
    ELSE (IF Head(lcs).ok
          THEN <<[Head(sel) EXCEPT !.Commits = Head(lcs).val]>>
          ELSE <<>>) \o Fetched(Tail(sel), Tail(lcs))

\* The worker w leaves its state in this step.
Leaves(w) == CopiesIn(w, workers') < CopiesIn(w, workers)

\* The full name occurs once in the input list.
ListedOnce(fullName) ==
    Cardinality({i \in 1..Len(repos) : repos[i].FullName = fullName}) = 1

\* C14: a failed ListCommits call for a selected branch does not fail the
\* repository; when processRepository returns a repository, it has called
\* ListBranches and then ListCommits once for each selected branch in
\* selection order, and the repository's Branches are exactly the selected
\* branches whose call succeeded, in that order, each with the commits the
\* call returned.
C14_FailedBranchesSkipped ==
    \A w \in Processing :
        /\ (\E i \in 1..Len(w.calls) :
                w.calls[i].kind = "ListCommits" /\ ~w.calls[i].ok)
               => w.pc # "sendError" /\ w.err = ""
        /\ w.pc = "sendResult" =>
               /\ w.err = ""
               /\ w.calls # <<>>
               /\ LET lb  == w.calls[1]
                      sel == selectBranchesToProcess(lb.val, w.repo.DefaultBranch)
                      lcs == Tail(w.calls)
                  IN  /\ lb.kind = "ListBranches" /\ lb.ok
                      /\ \A i \in 1..Len(lcs) : lcs[i].kind = "ListCommits"
                      /\ [i \in 1..Len(lcs) |-> lcs[i].branch] = Names(sel)
                      /\ w.repo.Branches = Fetched(sel, lcs)
                      /\ \A b \in Range(w.repo.Branches) :
                             \E i \in 1..Len(lcs) :
                                 lcs[i].ok /\ lcs[i].branch = b.Name

\* o/a returned with main's commits failed and develop's commits fetched.
C14_Witness ==
    \E w \in Processing :
        /\ w.pc = "sendResult"
        /\ Len(w.calls) = 3
        /\ ~w.calls[2].ok /\ w.calls[3].ok
        /\ Names(w.repo.Branches) = <<"develop">>
        /\ w.repo.Branches[1].Commits = ProviderCommits(OwnerO, <<"a">>, "develop")

\* No branch of the repository w holds was fetched: the selection was empty
\* or every ListCommits call failed.
NothingFetched(w) ==
    /\ w.calls # <<>>
    /\ w.calls[1].ok
    /\ \A i \in 2..Len(w.calls) : ~w.calls[i].ok

\* Every success and every failure on its way to the caller, in this state.
NoFailureOfSuccess ==
    \A r \in DOMAIN SuccessBag :
        ListedOnce(r.FullName) =>
            r.FullName \notin {e.repo : e \in DOMAIN FailureBag}

\* The collector's lists grow by the head of their channel only.
CollectorMovesHeads ==
    /\ processedRepos' # processedRepos =>
           /\ resultsChan # <<>>
           /\ processedRepos' = Append(processedRepos, Head(resultsChan))
           /\ errors' = errors
    /\ errors' # errors =>
           /\ errorsChan # <<>>
           /\ errors' = Append(errors, Head(errorsChan))
           /\ processedRepos' = processedRepos

\* When the collector loop has ended nothing is left on the way.
NothingLeft ==
    Collected =>
        /\ resultsChan = <<>> /\ errorsChan = <<>>
        /\ \A w \in BagToSet(workers) : w.pc = "exited"

EmptyRepositoryStep ==
    /\ \A w \in BagToSet(workers') :
           HasReturned(w) /\ NothingFetched(w) =>
               w.pc = "sendResult" /\ w.err = "" /\ w.repo.Branches = <<>>
    /\ \A w \in BagToSet(workers) :
           w.pc = "sendResult" /\ w.repo.Branches = <<>> /\ Leaves(w) =>
               /\ resultsChan' = Append(resultsChan, w.repo)
               /\ errorsChan' = errorsChan
               /\ errors' = errors
    /\ CollectorMovesHeads
    /\ NoFailureOfSuccess'
    /\ NothingLeft'

\* C15: when processRepository returns for a repository of which no branch
\* was fetched (empty selection, or every ListCommits call failed), it
\* returns the repository with empty Branches and no error; the worker
\* sends it on resultsChan and nothing on errorsChan, the collector appends
\* it to processedRepos, nothing is left on the way when the collector loop
\* ends, and a repository listed once that is a success is in no failure.
C15_EmptyRepositoryIsSuccess == [][EmptyRepositoryStep]_vars

\* o/b returned in the report with no branch: the commits of master failed.
C15_Witness ==
    /\ mainPc = "returned"
    /\ repos = <<RepoB>>
    /\ Len(processedRepos) = 1
    /\ processedRepos[1].Branches = <<>>
    /\ errors = <<>>
    /\ warnings # {}

\* C16: processRepository fails with the malformed-name error exactly when
\* the full name does not hold exactly one "/", and then it has made no
\* provider call; every failure on its way to the caller carries that error
\* exactly when its full name does not hold exactly one "/".
C16_MalformedIdentity ==
    /\ \A w \in Processing :
           /\ (w.pc = "sendError" /\ w.err = ErrMalformed)
                  <=> Separators(w.repo.FullName) # 1
           /\ Separators(w.repo.FullName) # 1 => w.calls = <<>>
           /\ Separators(w.repo.FullName) = 1 /\ HasReturned(w) => w.calls # <<>>
    /\ \A e \in DOMAIN FailureBag :
           e.err = ErrMalformed <=> Separators(e.repo) # 1

\* A full name with two separators has failed, and no call was made.
C16_Witness ==
    \E w \in Processing :
        /\ w.pc = "sendError"
        /\ w.err = ErrMalformed
        /\ Separators(w.repo.FullName) = 2
        /\ w.calls = <<>>

BranchListFailureStep ==
    /\ \A w \in BagToSet(workers') :
           /\ w.calls # <<>> /\ ~w.calls[1].ok =>
                  /\ w.pc = "sendError"
                  /\ w.err \in {ErrProvider, ErrCancelled}
                  /\ Len(w.calls) = 1
                  /\ w.calls[1].kind = "ListBranches"
           /\ w.pc = "sendError" /\ w.err # ErrMalformed =>
                  w.calls # <<>> /\ ~w.calls[1].ok
    /\ \A w \in BagToSet(workers) :
           w.pc = "sendError" /\ w.err # ErrMalformed /\ Leaves(w) =>
               /\ errorsChan' = Append(errorsChan,
                                       [repo |-> w.repo.FullName, err |-> w.err])
               /\ resultsChan' = resultsChan
               /\ processedRepos' = processedRepos
    /\ CollectorMovesHeads
    /\ \A e \in DOMAIN FailureBag' :
           ListedOnce(e.repo)' =>
               /\ CopiesIn(e, FailureBag') = 1
               /\ e.repo \notin {r.FullName : r \in DOMAIN SuccessBag'}
    /\ NothingLeft'

\* C17: when the ListBranches call of a repository fails, processRepository
\* returns the error after that one call, without a ListCommits call; the
\* worker sends one entry with the repository's full name on errorsChan and
\* nothing on resultsChan, the collector appends it to errors, and a
\* repository listed once has one failure entry and is no success.
C17_BranchListFailure == [][BranchListFailureStep]_vars

\* o/a is the one failure of the run, by a provider error.
C17_Witness ==
    /\ mainPc = "returned"
    /\ repos = <<RepoA>>
    /\ processedRepos = <<>>
    /\ errors = <<[repo |-> RepoA.FullName, err |-> ErrProvider]>>
    /\ warnings = {}

\* C18: GenerateReport has returned an error, and no report, exactly when it
\* stopped at the failed repository listing, before anything was started;
\* when it returns otherwise it returns no error and a report whose
\* Repositories are processedRepos, which hold every success produced, and
\* each listed repository is one of them or one of the failures.
C18_ErrorOnlyWhenListingFails ==
    /\ report.returned <=> mainPc \in {"returned", "error"}
    /\ report.returned => (report.err # "" <=> mainPc = "error")
    /\ mainPc = "error" =>
           /\ report = [returned |-> TRUE, err |-> "failed to list repositories"]
           /\ repos = <<>> /\ spawned = 0 /\ workers = EmptyBag
           /\ processedRepos = <<>> /\ errors = <<>>
    /\ mainPc = "returned" =>
           /\ report.err = ""
           /\ report.Repositories = processedRepos
           /\ SuccessBag = SeqToBag(processedRepos)
           /\ FailureBag = SeqToBag(errors)
           /\ SeqToBag(FullNames(repos))
                  = SeqToBag(FullNames(processedRepos))
                        (+) SeqToBag(ErrorRepos(errors))

\* A report returned after a repository failure and a branch failure.
C18_Witness ==
    /\ mainPc = "returned"
    /\ report.err = ""
    /\ Len(report.Repositories) = 1
    /\ Len(errors) = 1
    /\ warnings # {}


\* -------------------------------------------------------- the author key

\* C19: getAuthorKey returns for every author, and returns the login when
\* the login is not empty, else the email when the email is not empty, else
\* the name, whether or not the name is empty.
C19_AuthorKey ==
    keyCall.returned =>
        LET a == keyCall.author
        IN  /\ a.Login # "" => keyCall.key = a.Login
            /\ a.Login = "" /\ a.Email # "" => keyCall.key = a.Email
            /\ a.Login = "" /\ a.Email = "" => keyCall.key = a.Name
            /\ keyCall.key \in {a.Login, a.Email, a.Name}

\* An author with neither login nor email nor name: the key is empty.
C19_Witness ==
    /\ keyCall.returned
    /\ keyCall.author = Author("", "", "")
    /\ keyCall.key = ""

\* The repositories of full name r hold a commit of author key k.
HasCommit(rs, r, k) ==
    \E i \in 1..Len(rs) :
        /\ rs[i].FullName = r
        /\ \E j \in 1..Len(rs[i].Branches) :
               \E c \in 1..Len(rs[i].Branches[j].Commits) :
                   getAuthorKey(rs[i].Branches[j].Commits[c].Author) = k

\* The author keys of the commits the inputs are built from.
SumKeys == {getAuthorKey(SumCommits[i].Author) : i \in 1..Len(SumCommits)}

\* The summary m has the contributors and per-repository entries of rs.
EntriesOf(m, rs) ==
    LET names == {rs[i].FullName : i \in 1..Len(rs)}
    IN  /\ \A k \in SumKeys \cup DOMAIN m :
               k \in DOMAIN m <=> \E r \in names : HasCommit(rs, r, k)
        /\ \A k \in DOMAIN m :
               /\ \A r \in names \cup DOMAIN m[k].Repositories :
                      r \in DOMAIN m[k].Repositories <=> HasCommit(rs, r, k)
               /\ m[k].TotalCommits >= 1
               /\ \A r \in DOMAIN m[k].Repositories :
                      m[k].Repositories[r].Commits >= 1

\* C20: the summary that generateSummary returns has an entry for a key
\* exactly when a commit of the input has that author key, and the entry's
\* per-repository map has an entry for a full name exactly when a commit of
\* a repository of that name has the key; repositories without branches or
\* without commits add nothing; every commit count is at least 1. The same
\* holds of the map built so far and the commits folded so far.
C20_EntriesHaveCommits ==
    /\ SumDone => EntriesOf(summary, sumRepos) /\ summary = generateSummary(sumRepos)
    /\ DOMAIN summary = {getAuthorKey(Folded[i].commit.Author) : i \in 1..sumPos}
    /\ \A k \in DOMAIN summary :
           /\ DOMAIN summary[k].Repositories
                  = {Folded[i].repo : i \in {j \in 1..sumPos :
                         getAuthorKey(Folded[j].commit.Author) = k}}
           /\ summary[k].TotalCommits >= 1
           /\ \A r \in DOMAIN summary[k].Repositories :
                  summary[k].Repositories[r].Commits >= 1

\* A repository without branches, one with a branch without commits and one
\* with commits of one contributor: one entry with one per-repository entry.
C20_Witness ==
    /\ SumDone
    /\ Len(sumRepos) = 3
    /\ sumRepos[1].Branches = <<>>
    /\ Len(sumRepos[2].Branches) = 1 /\ sumRepos[2].Branches[1].Commits = <<>>
    /\ sumRepos[1].FullName # sumRepos[3].FullName
    /\ sumRepos[2].FullName # sumRepos[3].FullName
    /\ Cardinality(DOMAIN summary) = 1
    /\ \A k \in DOMAIN summary :
           DOMAIN summary[k].Repositories = {sumRepos[3].FullName}


\* ------------------------------------------------ the commits of ListCommits

\* ListCommits has returned its result without an error.
CommitsReturned == commitsCall.pc = "returned" /\ commitsCall.err = ""

\* C21 as claimed: every commit record ListCommits returns, which is what
\* processRepository attaches to the branch and the report holds, has
\* Total = Additions + Deletions, whatever the detail call carried.
C21_TotalIsSum ==
    CommitsReturned =>
        \A i \in 1..Len(commitsCall.result) :
            LET st == commitsCall.result[i].Stats
            IN  st.Total = st.Additions + st.Deletions

\* A returned commit with one addition, one deletion and a total of 0.
C21_Witness ==
    /\ CommitsReturned
    /\ Len(commitsCall.result) = 1
    /\ commitsCall.result[1].Stats = CommitStats(1, 1, 0)


\* ---------------------------------------------------------- the run of main

\* GenerateReport has returned a report to main.
MainReported == mainRun.pc \in {"output", "exited"} /\ mainRun.report.returned

\* C22 as claimed: the window of every report GenerateReport returns has
\* Since <= Until, for -since and -until values main accepts.
C22_WindowOrdered ==
    MainReported => mainRun.report.Period.Since <= mainRun.report.Period.Until

\* A report for -since 2024-02-01 -until 2024-01-01.
C22_Witness ==
    /\ MainReported
    /\ mainRun.args.since = DateArg("ymd", 2024, 2, 1)
    /\ mainRun.args.until = DateArg("ymd", 2024, 1, 1)
    /\ mainRun.report.Period.Since > mainRun.report.Period.Until

\* C26 as claimed: a run with -all-branches is not turned down for its
\* flags, and the report it gets has every branch of the repository
\* analyzed.
C26_AllBranchesAnalyzed ==
    mainRun.pc # "off" /\ mainRun.args.allBranches =>
        /\ ~(mainRun.pc = "exited" /\ mainRun.exit = 2)
        /\ MainReported =>
               Names(mainRun.report.Analyzed)
                   = Names(ProviderBranches(OwnerO, RepoA.Name))

\* A run with -target o -all-branches has ended with status 2, no report.
C26_Witness ==
    /\ mainRun.pc = "exited"
    /\ mainRun.args.allBranches
    /\ mainRun.args.target = "o"
    /\ mainRun.exit = 2
    /\ ~mainRun.report.returned


\* ------------------------------------------------- the repository listing

\* C25: the list convertRepositories returns, which is the list
\* ListRepositories hands to GenerateReport, holds one repository for each
\* provider repository that is not archived, in the provider's order and
\* with the provider's name, full name, URL and default branch, and none
\* for an archived one.
C25_ArchivedExcluded ==
    convCall.returned =>
        LET kept == SelectSeq(convCall.repos, LAMBDA r : ~r.Archived)
        IN  /\ Len(convCall.result) = Len(kept)
            /\ \A i \in 1..Len(kept) :
                   /\ convCall.result[i].Name = kept[i].Name
                   /\ convCall.result[i].FullName = kept[i].FullName
                   /\ convCall.result[i].URL = kept[i].HTMLURL
                   /\ convCall.result[i].DefaultBranch = kept[i].DefaultBranch
                   /\ convCall.result[i].Branches = <<>>

\* An archived repository between two that are not: o/b, then o/a, are kept.
C25_Witness ==
    /\ convCall.returned
    /\ Len(convCall.repos) = 3
    /\ ~convCall.repos[1].Archived
    /\ convCall.repos[2].Archived
    /\ ~convCall.repos[3].Archived
    /\ FullNames(convCall.result) = <<<<"o", "/", "b">>, <<"o", "/", "a">>>>


\* ---------------------------------------------------------------------------
\* Aggregation after the streams are drained
\* ---------------------------------------------------------------------------

\* Both result streams are closed, empty and seen closed by the collector, and
\* no worker still holds a result.
StreamsDrained ==
    /\ resultsClosed /\ errorsClosed
    /\ resultsChan = <<>> /\ errorsChan = <<>>
    /\ resultsNil /\ errorsNil
    /\ HeldResults = EmptyBag /\ HeldErrors = EmptyBag

\* One step seen from the aggregation: once the collector loop has ended the
\* streams are drained and the collected lists stay as they are; the returned
\* report holds the collected list and its aggregate.
AggregationStep ==
    /\ Collected' => StreamsDrained'
    /\ Collected' => SuccessBag' = SeqToBag(processedRepos')
    /\ Collected => processedRepos' = processedRepos /\ errors' = errors
    /\ mainPc' = "returned" =>
          /\ report'.Repositories = processedRepos'
          /\ report'.Summary = generateSummary(processedRepos')

\* C23: aggregation starts only after both result streams are closed and
\* drained: nothing is received once generateSummary has started, the
\* report's repository list is exactly the collected successes and the
\* summary is the aggregate of exactly that list.
C23_AggregationAfterDrain == [][AggregationStep]_vars

\* GenerateReport returned after collecting two successes and aggregating the
\* contributors of both.
C23_Witness ==
    /\ mainPc = "returned"
    /\ Len(processedRepos) = 2
    /\ report.Repositories = processedRepos
    /\ Cardinality(DOMAIN report.Summary) = 2
    /\ StreamsDrained

\* ---------------------------------------------------------------------------
\* Each repository processed once, nothing retried
\* ---------------------------------------------------------------------------

\* Number of input repositories the sending goroutine has enqueued.
Enqueued == IF dispatcher.pc = "off" THEN 0 ELSE dispatcher.i - 1

\* Number of entries of the sequence of names that equal fullName.
Occurrences(fullName, names) ==
    Cardinality({i \in 1..Len(names) : names[i] = fullName})

\* Number of workers inside processRepository for fullName.
BeingProcessed(fullName) ==
    LET ws == {w \in BagToSet(workers) :
                  w.pc \in {"branches", "commits"} /\ w.repo.FullName = fullName}
    IN  SetSum([w \in ws |-> CopiesIn(w, workers)], ws)

\* Number of results (successes and failures) produced so far for fullName.
Produced(fullName) ==
    LET ss == {r \in DOMAIN SuccessBag : r.FullName = fullName}
        fs == {e \in DOMAIN FailureBag : e.repo = fullName}
    IN  SetSum([r \in ss |-> SuccessBag[r]], ss)
            + SetSum([e \in fs |-> FailureBag[e]], fs)

\* The provider calls of one processRepository: ListBranches first and once,
\* then ListCommits for the selected branches in order, one call per branch.
CalledOnceEach(w) ==
    w.calls # <<>> =>
        LET lb  == w.calls[1]
            lcs == Tail(w.calls)
            sel == selectBranchesToProcess(lb.val, w.repo.DefaultBranch)
        IN  /\ lb.kind = "ListBranches"
            /\ \A i \in 1..Len(lcs) : lcs[i].kind = "ListCommits"
            /\ ~lb.ok => lcs = <<>>
            /\ lb.ok =>
                  /\ Len(lcs) <= Len(sel)
                  /\ \A i \in 1..Len(lcs) : lcs[i].branch = sel[i].Name

FullyProcessed(repo) ==
    LET parts == Split(repo.FullName, "/")
        sel   == selectBranchesToProcess(ProviderBranches(parts[1], parts[2]),
                                         repo.DefaultBranch)
    IN  [repo EXCEPT !.Branches =
            [i \in 1..Len(sel) |->
                [sel[i] EXCEPT !.Commits =
                    ProviderCommits(parts[1], parts[2], sel[i].Name)]]]

\* The successes of the run in which every provider call answers in full and
\* the results are collected in input order.
InInputOrder == [i \in 1..Len(repos) |-> FullyProcessed(repos[i])]

\* GenerateReport returned, and every provider call of the run answered in
\* full: the collected successes are the fully processed input repositories,
\* in some order.
ReturnedInFull ==
    /\ mainPc = "returned"
    /\ \A i \in 1..Len(repos) : ~Malformed(repos[i].FullName)
    /\ SeqToBag(processedRepos) = SeqToBag(InInputOrder)

\* C27 as claimed: with the same repository list and the same provider
\* responses the report's summary, Name, Email and Login included, is the one
\* of the run that collects in input order, whatever the interleaving.
C27_SummaryInterleavingIndependent ==
    ReturnedInFull => report.Summary = generateSummary(InInputOrder)

\* o/a and o/b listed in this order, every call answered in full, o/b
\* collected first: the contributor "alice" carries the name of o/b's commit.
C27_Witness ==
    /\ ReturnedInFull
    /\ repos = <<RepoA, RepoB>>
    /\ FullNames(processedRepos) = FullNames(<<RepoB, RepoA>>)
    /\ report.Summary["alice"].Name = "Alice B."
    /\ generateSummary(InInputOrder)["alice"].Name = "Alice"

\* The same input and responses, collected in input order.
C27_WitnessInputOrder ==
    /\ ReturnedInFull
    /\ repos = <<RepoA, RepoB>>
    /\ processedRepos = InInputOrder
    /\ report.Summary["alice"].Name = "Alice"

\* ---------------------------------------------------------------------------
\* Channel closing
\* ---------------------------------------------------------------------------

\* Each close statement has run exactly when its channel is closed: the
\* goroutine that closes a channel is past the statement, and only then.
ClosedByItsCloser ==
    /\ reposClosed <=> dispatcher.pc = "done"
    /\ resultsClosed <=> closerPc \in {"closeErrors", "done"}
    /\ errorsClosed <=> closerPc = "done"

\* C28: no process ever sends on a closed channel or closes one twice: the
\* success and failure streams are closed only after every worker has
\* returned, the work queue only after every input repository has been
\* enqueued, and each channel is closed by one statement that runs once.
C28_NoSendOnClosed ==
    /\ ~panicked
    /\ resultsClosed => AllWorkersExited
    /\ errorsClosed => AllWorkersExited /\ resultsClosed
    /\ closerPc \in {"closeResults", "closeErrors", "done"} =>
           wg = 0 /\ AllWorkersExited
    /\ reposClosed => Enqueued = Len(repos)
    /\ ClosedByItsCloser

\* A run over two repositories that ended with all three channels closed.
C28_Witness ==
    /\ mainPc = "returned"
    /\ Len(repos) = 2
    /\ reposClosed /\ resultsClosed /\ errorsClosed
    /\ Len(processedRepos) + Len(errors) = 2
    /\ ~panicked

\* ---------------------------------------------------------------------------
\* Contributor identity: first commit wins
\* ---------------------------------------------------------------------------

\* Name, Email and Login of a contributor entry or of a commit author.
Identity(x) == <<x.Name, x.Email, x.Login>>

\* The author of the first of the items whose author key is k.
FirstAuthor(items, k) ==
    LET is == {i \in 1..Len(items) : getAuthorKey(items[i].commit.Author) = k}
        i  == CHOOSE j \in is : \A l \in is : j <= l
    IN  items[i].commit.Author

\* Every contributor of m carries the identity of the first of the items
\* with its key.
FirstSeen(m, items) ==
    \A k \in DOMAIN m : Identity(m[k]) = Identity(FirstAuthor(items, k))

\* One step of the aggregation seen from the identities: the entries that
\* exist keep theirs, a new entry takes the one of the commit being folded,
\* and every entry has the identity of the first folded commit with its key.
IdentityStep ==
    /\ \A k \in DOMAIN summary :
           k \in DOMAIN summary' /\ Identity(summary'[k]) = Identity(summary[k])
    /\ \A k \in DOMAIN summary' \ DOMAIN summary :
           Identity(summary'[k])
               = Identity(CommitItems(sumRepos)[sumPos + 1].commit.Author)
    /\ FirstSeen(summary', Folded')
    /\ SumDone' => FirstSeen(generateSummary(sumRepos), CommitItems(sumRepos))

\* C29: a contributor entry's Name, Email and Login are set from the first
\* commit encountered with that author key and are never changed by later
\* commits with the same key, even when those carry other names or emails;
\* only the counters change.
C29_IdentityFromFirstCommit == [][IdentityStep]_vars

\* "Alan" is folded before "Al" under the key "al": the entry is named Alan
\* and counts both commits.
C29_Witness ==
    /\ SumDone
    /\ "al" \in DOMAIN summary
    /\ summary["al"].Name = "Alan" /\ summary["al"].Email = "al@y"
    /\ summary["al"].TotalCommits >= 2
    /\ \E i \in 1..Len(Folded) : Folded[i].commit.Author.Name = "Al"

\* ---------------------------------------------------------------------------
\* The repository record through processing and aggregation
\* ---------------------------------------------------------------------------

\* The two records agree in everything but the branch list.
SameButBranches(r, in) ==
    /\ r.Name = in.Name
    /\ r.FullName = in.FullName
    /\ r.URL = in.URL
    /\ r.DefaultBranch = in.DefaultBranch

\* The worker w took one more step of processRepository and is now w2.
Became(w, w2) ==
    /\ Leaves(w)
    /\ CopiesIn(w2, workers') > CopiesIn(w2, workers)

\* The record a worker holds is an input record: as listed while
\* processRepository runs and when it fails, with another branch list when it
\* succeeds.
HoldsInputRecord(w) ==
    /\ w.pc \in {"branches", "commits", "sendError"} => w.repo \in Range(repos)
    /\ w.pc = "sendResult" =>
           \E in \in Range(repos) : SameButBranches(w.repo, in)

\* One step seen from the repository record.
RecordStep ==
    /\ \A w \in Processing' : HoldsInputRecord(w)'
    /\ \A w \in BagToSet(workers), w2 \in Processing' :
           Became(w, w2) =>
               /\ w.pc = "recv" => w2.repo = Head(reposChan)
               /\ w.pc \in {"branches", "commits"} =>
                      /\ SameButBranches(w2.repo, w.repo)
                      /\ w2.pc # "sendResult" => w2.repo = w.repo
    /\ \A w \in BagToSet(workers) :
           w.pc = "sendResult" /\ Leaves(w) =>
               resultsChan' = Append(resultsChan, w.repo)
    /\ CollectorMovesHeads
    /\ \A r \in DOMAIN SuccessBag' :
           \E in \in Range(repos') : SameButBranches(r, in)
    /\ mainPc = "summary" => processedRepos' = processedRepos
    /\ mainPc' = "returned" => report'.Repositories = processedRepos

\* C30: processRepository changes only the branch list of the repository
\* record: Name, FullName, URL and DefaultBranch of the returned repository
\* are those of the input, on failure the input record is returned with its
\* branch list unchanged, and generateSummary leaves the records it reads
\* unchanged.
C30_OnlyBranchesChange == [][RecordStep]_vars

\* The report holds o/a with fetched branches, otherwise as listed, and a
\* failure was returned for another repository.
C30_Witness ==
    /\ mainPc = "returned"
    /\ Len(errors) = 1
    /\ \E i \in 1..Len(report.Repositories) :
           /\ report.Repositories[i].Branches # <<>>
           /\ SameButBranches(report.Repositories[i], RepoA)
           /\ RepoA \in Range(repos)

\* ---------------------------------------------------------------------------
\* Page failures and detail failures in ListCommits
\* ---------------------------------------------------------------------------

\* The positions among the first n listed commits whose detail call
\* succeeded, in listing order.
KeptPositions(n) ==
    SelectSeq([i \in 1..n |-> i], LAMBDA i : commitsCall.detailOk[i])

\* The returned commit r is the listed commit c (its statistics come from the
\* detail call).
IsCommitOf(r, c) ==
    /\ r.SHA = c.SHA
    /\ r.Author.Name = c.Name
    /\ r.Author.Email = c.Email
    /\ r.Author.Login = (IF c.HasAuthor THEN c.Login ELSE "")

\* The result so far holds exactly the listed commits whose detail call
\* succeeded, in listing order.
ResultIsKept ==
    LET kept == KeptPositions(commitsCall.pos)
    IN  /\ Len(commitsCall.detailOk) = commitsCall.pos
        /\ Len(commitsCall.result) = Len(kept)
        /\ \A j \in 1..Len(kept) :
               IsCommitOf(commitsCall.result[j], commitsCall.listed[kept[j]])

\* The summary of a repository whose one branch carries the returned list
\* counts the commits whose detail call succeeded, per author key, and no
\* others.
SummaryCountsKept ==
    LET kept    == KeptPositions(commitsCall.pos)
        repo    == Repository(<<"a">>, <<"o", "/", "a">>, "url-a", "main",
                              <<Branch("main", "m1", commitsCall.result)>>)
        m       == generateSummary(<<repo>>)
        keyOf(i) == LET c == commitsCall.listed[i]
                    IN  getAuthorKey(Author(c.Name, c.Email,
                                            IF c.HasAuthor THEN c.Login ELSE ""))
    IN  /\ SetSum([k \in DOMAIN m |-> m[k].TotalCommits], DOMAIN m) = Len(kept)
        /\ \A k \in DOMAIN m :
               m[k].TotalCommits
                   = Cardinality({j \in 1..Len(kept) : keyOf(kept[j]) = k})

\* C31: within ListCommits a failure on any page of the listing fails the
\* whole call with no partial list and no detail call made, whereas a failed
\* detail call only drops that one commit: the call goes through every listed
\* commit and succeeds, the returned list is exactly the listed commits whose
\* detail call succeeded, in listing order, and the dropped commits are not
\* counted in the summary.
C31_PageFailsDetailDrops ==
    /\ commitsCall.pc \in {"details", "returned"} /\ commitsCall.err = "" =>
           /\ commitsCall.allCommits = commitsCall.listed
           /\ ResultIsKept
    /\ commitsCall.pc = "returned" =>
           /\ commitsCall.err # "" =>
                  /\ commitsCall.result = <<>>
                  /\ commitsCall.pos = 0
                  /\ commitsCall.detailOk = <<>>
           /\ commitsCall.err = "" =>
                  /\ commitsCall.pos = Len(commitsCall.listed)
                  /\ SummaryCountsKept

\* Two commits listed, the detail call of the first failed and that of the
\* second succeeded: the call returns the second commit alone, without error.
C31_Witness ==
    /\ CommitsReturned
    /\ Len(commitsCall.listed) = 2
    /\ commitsCall.listed[1].SHA = "c1" /\ commitsCall.listed[2].SHA = "c2"
    /\ commitsCall.detailOk = <<FALSE, TRUE>>
    /\ Len(commitsCall.result) = 1
    /\ commitsCall.result[1].SHA = "c2"

\* The second page of the listing failed after the first was fetched: the
\* call returns an error and no commits.
C31_WitnessPageFailure ==
    /\ commitsCall.pc = "returned"
    /\ commitsCall.err # ""
    /\ Len(commitsCall.listed) = 2
    /\ Len(commitsCall.allCommits) = 1
    /\ commitsCall.result = <<>>

====
